---- MODULE Spec2Model ----
(***************************************************************************)
(* Model of the surfer waveform viewer core: State::update message         *)
(* handling (src/src/main.rs), the draw-command generator                  *)
(* (src/src/signal_canvas.rs), the viewport (src/src/viewport.rs) and the  *)
(* translators (src/src/translation/*.rs).                                 *)
(*                                                                         *)
(* f64 values are modelled as exact rationals <<n, d>> with d > 0 in       *)
(* lowest terms.  Option values are modelled as sequences: <<>> is None    *)
(* and <<x>> is Some(x).  Result values are records [ok |-> BOOLEAN, ...]. *)
(***************************************************************************)
EXTENDS Integers, Sequences, FiniteSets, TLC

VARIABLES
    waves,              \* State.waves : Option<WaveData>
    translators,        \* State.translators : TranslatorList (registration order)
    draw_data,          \* State.draw_data : Option<CachedDrawData>
    last_canvas_rect,   \* State.last_canvas_rect : Option<Rect> (the width only)
    canvas,             \* width of the canvas rect egui hands to draw_signals
    msgs,               \* messages pushed during a frame, not yet given to update
    last_pass,          \* history: the pass that stored the current cache (inputs, outcome)
    panicked,           \* TRUE once a handler has panicked (unwrap, clamp, index)
    fn_in,              \* input of the pure function under check
    fn_out,             \* its result
    channel,            \* messages sent on msg_sender, not yet received
    workers,            \* the worker threads and download tasks that have not reported
    vcd_progress,       \* State.vcd_progress : Option<LoadProgress>
    loads               \* history: the loads requested, and what their workers reported

vars == <<waves, translators, draw_data, last_canvas_rect, canvas, msgs,
          last_pass, panicked, fn_in, fn_out, channel, workers, vcd_progress, loads>>

None == <<>>
Some(x) == <<x>>

\* no load was requested
NoLoads ==
    /\ channel = <<>>
    /\ workers = {}
    /\ vcd_progress = None
    /\ loads = <<>>

----------------------------------------------------------------------------
(* Exact rational arithmetic standing for f64 / BigRational.               *)

Abs(x) == IF x < 0 THEN -x ELSE x

RECURSIVE GCD(_, _)
GCD(a, b) ==
    IF b = 0 THEN a ELSE CHOOSE g \in {GCD(x, y) : x \in {b}, y \in {a % b}} : TRUE

\* n / d in lowest terms with a positive denominator
Reduced(n, d, g) == <<n \div g, d \div g>>
Q(n, d) ==
    CHOOSE q \in {Reduced(IF y < 0 THEN -x ELSE x, Abs(y), GCD(Abs(x), Abs(y))) :
                     x \in {n}, y \in {d}} : TRUE

QInt(n) == <<n, 1>>
QAdd(a, b) == Q(a[1] * b[2] + b[1] * a[2], a[2] * b[2])
QSub(a, b) == Q(a[1] * b[2] - b[1] * a[2], a[2] * b[2])
QMul(a, b) == Q(a[1] * b[1], a[2] * b[2])
QDiv(a, b) == Q(a[1] * b[2], a[2] * b[1])
QLt(a, b) == a[1] * b[2] < b[1] * a[2]
QLe(a, b) == a[1] * b[2] <= b[1] * a[2]
QIsZero(a) == a[1] = 0
\* BigRational::round rounds to the nearest integer, halves away from zero
QRound(a) ==
    IF a[1] >= 0 THEN (2 * a[1] + a[2]) \div (2 * a[2])
    ELSE -((2 * (-a[1]) + a[2]) \div (2 * a[2]))

\* BigRational::to_integer truncates toward zero
QTrunc(a) == IF a[1] >= 0 THEN a[1] \div a[2] ELSE -((-a[1]) \div a[2])

----------------------------------------------------------------------------
(* The loaded trace (waves.inner): what the waveform data source answers.  *)
(* A trace is a record [max_timestamp, vars]; a variable has a bit width,  *)
(* a flag telling whether signal_meta succeeds, a flag telling whether     *)
(* query_signal succeeds, and its value changes <<time, raw value>> in     *)
(* ascending time.  Raw values are sequences of the characters of a        *)
(* SignalValue::String.                                                    *)

VarNames == {"clk", "bus", "gone"}

TraceIds == {"A", "B", "Z", "E"}

Var(bits, meta_ok, query_ok, changes) ==
    [bits |-> bits, meta_ok |-> meta_ok, query_ok |-> query_ok, changes |-> changes]

\* A: a one-bit clock and a two-bit bus that is rewritten with the same value
\*    at time 2 and becomes partly undefined at time 4
\* B: no clock, and the metadata of the bus is malformed
\* M: the clock of A, and the metadata of the bus is malformed
\* Q: the clock cannot be queried, and the bus is partly undefined at time 2
\*    only
\* W: the clock of A, and the bus is three bits wide
\* Z: a trace whose only timestamp is 0;  E: a trace without timestamps
Trace(id) ==
    CASE id = "A" ->
           [max_timestamp |-> Some(4),
            vars |-> [n \in {"clk", "bus"} |->
               IF n = "clk"
               THEN Var(1, TRUE, TRUE,
                        << <<0, <<"0">> >>, <<1, <<"1">> >>, <<2, <<"0">> >>,
                           <<3, <<"1">> >> >>)
               ELSE Var(2, TRUE, TRUE,
                        << <<1, <<"1", "0">> >>, <<2, <<"1", "0">> >>,
                           <<4, <<"1", "x">> >> >>)]]
      [] id = "B" ->
           [max_timestamp |-> Some(2),
            vars |-> [n \in {"bus"} |-> Var(2, FALSE, FALSE, << >>)]]
      [] id = "M" ->
           [max_timestamp |-> Some(4),
            vars |-> [n \in {"clk", "bus"} |->
               IF n = "clk"
               THEN Var(1, TRUE, TRUE,
                        << <<0, <<"0">> >>, <<1, <<"1">> >>, <<2, <<"0">> >>,
                           <<3, <<"1">> >> >>)
               ELSE Var(2, FALSE, FALSE, << >>)]]
      [] id = "Q" ->
           [max_timestamp |-> Some(4),
            vars |-> [n \in {"clk", "bus"} |->
               IF n = "clk"
               THEN Var(1, TRUE, FALSE, << >>)
               ELSE Var(2, TRUE, TRUE,
                        << <<1, <<"1", "0">> >>, <<2, <<"1", "x">> >>,
                           <<3, <<"1", "0">> >> >>)]]
      [] id = "W" ->
           [max_timestamp |-> Some(4),
            vars |-> [n \in {"clk", "bus"} |->
               IF n = "clk"
               THEN Var(1, TRUE, TRUE,
                        << <<0, <<"0">> >>, <<1, <<"1">> >>, <<2, <<"0">> >>,
                           <<3, <<"1">> >> >>)
               ELSE Var(3, TRUE, TRUE, << <<1, <<"1", "0", "1">> >> >>)]]
      [] id = "Z" ->
           [max_timestamp |-> Some(0),
            vars |-> [n \in {"clk"} |-> Var(1, TRUE, TRUE, << <<0, <<"1">> >> >>)]]
      [] id = "E" ->
           [max_timestamp |-> None,
            vars |-> [n \in {} |-> Var(1, TRUE, TRUE, << >>)]]

signal_exists(inner, sig) == sig \in DOMAIN Trace(inner).vars

\* Result<meta>: the meta of a variable is its name and bit width
signal_meta(inner, sig) ==
    IF signal_exists(inner, sig) /\ Trace(inner).vars[sig].meta_ok
    THEN [ok |-> TRUE, meta |-> [name |-> sig, bits |-> Trace(inner).vars[sig].bits]]
    ELSE [ok |-> FALSE, meta |-> [name |-> sig, bits |-> 0]]

signals_in_module(inner) ==
    LET names == <<"bus", "clk">>
    IN  SelectSeq(names, LAMBDA n : signal_exists(inner, n))

\* Result<Option<(change_time, value)>>: the most recent change at or before time
query_signal(inner, sig, time) ==
    LET v == Trace(inner).vars[sig]
        at == {i \in 1..Len(v.changes) : v.changes[i][1] <= time}
    IN  IF ~signal_exists(inner, sig) \/ ~v.query_ok
        THEN [ok |-> FALSE, val |-> None]
        ELSE IF at = {}
             THEN [ok |-> TRUE, val |-> None]
             ELSE [ok |-> TRUE,
                   val |-> Some(v.changes[CHOOSE i \in at : \A j \in at : j <= i])]

----------------------------------------------------------------------------
(* Translators.  A translator is known by its name; the three operators    *)
(* below are the Translator trait.                                         *)

RECURSIVE Join(_)
Join(s) == IF s = <<>> THEN "" ELSE s[1] \o Join(Tail(s))

RECURSIVE BitsToNat(_)
BitsToNat(s) ==
    IF s = <<>> THEN 0
    ELSE 2 * BitsToNat(SubSeq(s, 1, Len(s) - 1)) + (IF s[Len(s)] = "1" THEN 1 ELSE 0)

HexDigit == <<"0", "1", "2", "3", "4", "5", "6", "7",
              "8", "9", "a", "b", "c", "d", "e", "f">>

RECURSIVE HexStr(_)
HexStr(n) == IF n < 16 THEN HexDigit[n + 1]
             ELSE HexStr(n \div 16) \o HexDigit[(n % 16) + 1]

Has(s, c) == \E i \in 1..Len(s) : s[i] = c

\* NumberParseResult: Numerical(v) or Unparsable(string, kind)
map_vector_signal(s) ==
    IF \A i \in 1..Len(s) : s[i] \in {"0", "1"}
    THEN [numerical |-> TRUE, v |-> BitsToNat(s), str |-> "", kind |-> "Normal"]
    ELSE [numerical |-> FALSE, v |-> 0, str |-> Join(s),
          kind |-> IF Has(s, "x") THEN "Undef"
                   ELSE IF Has(s, "z") THEN "HighImp" ELSE "DontCare"]

\* BigUint::from_bytes_be
RECURSIVE from_bytes_be(_)
from_bytes_be(bytes) ==
    IF bytes = <<>> THEN 0
    ELSE 256 * from_bytes_be(SubSeq(bytes, 1, Len(bytes) - 1)) + bytes[Len(bytes)]

\* SignalValue: Binary(bytes) or String(s)
Binary(bytes) == [variant |-> "Binary", bytes |-> bytes, s |-> <<>>]
String(s) == [variant |-> "String", bytes |-> <<>>, s |-> s]

\* HexTranslator::translate_biguint
translate_biguint(num_bits, v) == HexStr(v)

\* impl BasicTranslator for T: NumericTranslator, with T = HexTranslator: the
\* pair it returns, and the calls of translate_biguint it made
MutNumericParsesMarkers(num_bits, value) ==
    LET v == IF value.variant = "Binary" THEN from_bytes_be(value.bytes)
             ELSE BitsToNat(value.s)
    IN  [out |-> <<translate_biguint(num_bits, v), "Normal">>,
         biguint_calls |-> << <<num_bits, v>> >>]

basic_translate(num_bits, value) ==
    IF value.variant = "Binary"
    THEN LET v == from_bytes_be(value.bytes)
         IN  [out |-> <<translate_biguint(num_bits, v), "Normal">>,
              biguint_calls |-> << <<num_bits, v>> >>]
    ELSE LET r == map_vector_signal(value.s)
         IN  IF r.numerical
             THEN [out |-> <<translate_biguint(num_bits, r.v), "Normal">>,
                   biguint_calls |-> << <<num_bits, r.v>> >>]
             ELSE [out |-> <<r.str, r.kind>>, biguint_calls |-> <<>>]

\* the raw values of the traces are SignalValue::String
hex_basic_translate(num_bits, value) == basic_translate(num_bits, String(value)).out

\* BitTranslator::basic_translate
bit_basic_translate(num_bits, value) ==
    IF value = <<"0">> THEN <<"0", "Normal">>
    ELSE IF value = <<"1">> THEN <<"1", "Normal">>
    ELSE IF Has(value, "x") THEN <<Join(value), "Undef">>
    ELSE IF Has(value, "z") THEN <<Join(value), "HighImp">>
    ELSE <<Join(value), "Normal">>

is_1bit(meta) == meta.bits = 1

Ok(val, subfields) == [ok |-> TRUE, val |-> val, subfields |-> subfields]
Err == [ok |-> FALSE, val |-> None, subfields |-> <<>>]

Info(tag, sub) == [tag |-> tag, sub |-> sub]

\* ClockTranslator::translate
MutClockNoWidthCheck(meta, value) == Ok(Some(bit_basic_translate(meta.bits, value)), <<>>)
clock_translate(meta, value) ==
    IF is_1bit(meta)
    THEN Ok(Some(bit_basic_translate(meta.bits, value)), <<>>)
    ELSE Err

\* ClockTranslator::signal_info
clock_signal_info(meta) == [ok |-> TRUE, info |-> Info("Clock", <<>>)]

\* ClockTranslator::translates
clock_translates(meta) == IF is_1bit(meta) THEN "Yes" ELSE "No"

\* The translator loaded in the background (TranslatorLoaded): a struct
\* translator that prefers the variable "bus", decodes it into a root value
\* and the one-bit sub-field "v", and rejects undefined bits.  It knows the
\* bus as a two-bit type: its signal_info fails for a bus of another width.
spade_translate(meta, value) ==
    IF meta.name # "bus" \/ Has(value, "x") THEN Err
    ELSE Ok(Some(<<"S" \o Join(value), "Normal">>),
            << [name |-> "v", raw |-> <<value[1]>>] >>)

TranslatorNames == {"Hexadecimal", "Bit", "Clock", "spade"}

\* Translator::translates -> Prefer | Yes | No | Err
translates(name, meta) ==
    CASE name = "Hexadecimal" -> "Yes"
      [] name = "Bit" -> IF is_1bit(meta) THEN "Prefer" ELSE "No"
      [] name = "Clock" -> clock_translates(meta)
      [] name = "spade" -> IF meta.name = "bus" THEN "Prefer" ELSE "No"

\* Translator::signal_info -> Result<SignalInfo>
signal_info(name, meta) ==
    CASE name = "Hexadecimal" -> [ok |-> TRUE, info |-> Info("Bits", <<>>)]
      [] name = "Bit" -> [ok |-> TRUE, info |-> Info("Bool", <<>>)]
      [] name = "Clock" -> clock_signal_info(meta)
      [] name = "spade" ->
           [ok |-> meta.name # "bus" \/ meta.bits = 2,
            info |-> IF meta.name = "bus" /\ meta.bits = 2
                     THEN Info("Compound", << <<"v", "Clock">> >>)
                     ELSE Info("Bits", <<>>)]

\* Translator::translate -> Result<TranslationResult>
translate(name, meta, value) ==
    CASE name = "Hexadecimal" -> Ok(Some(hex_basic_translate(meta.bits, value)), <<>>)
      [] name = "Bit" -> Ok(Some(bit_basic_translate(meta.bits, value)), <<>>)
      [] name = "Clock" -> clock_translate(meta, value)
      [] name = "spade" -> spade_translate(meta, value)

\* SignalInfo::get_subinfo: the tag of the shape at a field path
get_subinfo(info, path) ==
    IF path = <<>> THEN info.tag
    ELSE LET hit == {i \in 1..Len(info.sub) : <<info.sub[i][1]>> = path}
         IN  IF hit = {} THEN "Bits" ELSE info.sub[CHOOSE i \in hit : TRUE][2]

\* SignalInfo::has_subpath
has_subpath(info, path) ==
    path = <<>> \/ \E i \in 1..Len(info.sub) : <<info.sub[i][1]>> = path

\* TranslatorList: `list` is the registered names in registration order
DefaultTranslator == "Hexadecimal"
BasicTranslators == <<"Hexadecimal", "Bit", "Clock">>
all_translators(list) == list
all_translator_names(list) == {list[i] : i \in 1..Len(list)}
is_valid_translator(list, meta, name) ==
    name \in all_translator_names(list) /\ translates(name, meta) \in {"Prefer", "Yes"}
translators_add(list, t) == Append(list, t)

FieldRef(root, field) == [root |-> root, field |-> field]

----------------------------------------------------------------------------
(* Viewport (src/src/viewport.rs) and WaveData helpers (src/src/main.rs).  *)

Viewport(left, right) == [curr_left |-> left, curr_right |-> right]

\* Viewport::to_time, x and the result are rationals
MutToTimeFromZero(vp, x, view_width) ==
    QMul(QDiv(QSub(vp.curr_right, vp.curr_left), QInt(view_width)), x)

to_time(vp, x, view_width) ==
    LET time_spacing == QDiv(QSub(vp.curr_right, vp.curr_left), QInt(view_width))
    IN  QAdd(vp.curr_left, QMul(time_spacing, x))

\* Viewport::from_time, time is an integer (BigInt); the viewport has a span
from_time(vp, time, view_width) ==
    LET distance_from_left == QSub(QInt(time), vp.curr_left)
        width == QSub(vp.curr_right, vp.curr_left)
    IN  QMul(QDiv(distance_from_left, width), QInt(view_width))

\* tl is the registered translators in order, each <<name, translates(var)>>
RECURSIVE MutSelectLastPrefer(_, _)
MutSelectLastPrefer(tl, default) ==
    IF tl = <<>> THEN default
    ELSE IF tl[Len(tl)][2] = "Prefer" THEN tl[Len(tl)][1]
    ELSE MutSelectLastPrefer(SubSeq(tl, 1, Len(tl) - 1), default)

RECURSIVE select_preferred_translator(_, _)
select_preferred_translator(tl, default) ==
    IF tl = <<>> THEN default
    ELSE IF tl[1][2] = "Prefer" THEN tl[1][1]
    ELSE select_preferred_translator(Tail(tl), default)

Preferences(list, meta) == [i \in 1..Len(list) |-> <<list[i], translates(list[i], meta)>>]

\* WaveData::signal_translator: the name of the translator it resolves
signal_translator(w, field, list) ==
    IF field \in DOMAIN w.signal_format THEN w.signal_format[field]
    ELSE IF field.field = <<>>
         THEN LET m == signal_meta(w.inner, field.root)
              IN  IF m.ok
                  THEN select_preferred_translator(Preferences(all_translators(list), m.meta),
                                                   DefaultTranslator)
                  ELSE DefaultTranslator
         ELSE DefaultTranslator

\* TranslationResult::flatten(..).as_fields(): <<path, Option<(string, kind)>>>,
\* the root first, each sub-field decoded by its own override or the default
flatten(result, root, signal_format, list) ==
    << <<<<>>, result.val>> >> \o
    [i \in 1..Len(result.subfields) |->
        LET f == result.subfields[i]
            fr == FieldRef(root, <<f.name>>)
            t == IF fr \in DOMAIN signal_format THEN signal_format[fr]
                 ELSE DefaultTranslator
            r == translate(t, [name |-> root, bits |-> Len(f.raw)], f.raw)
        IN  <<<<f.name>>, IF r.ok THEN r.val ELSE None>>]

\* The displayed signals, in display order (the filter_map over displayed_items)
displayed_signals(items) ==
    LET sigs == SelectSeq(items, LAMBDA it : it.kind = "Signal")
    IN  [i \in 1..Len(sigs) |-> sigs[i].signal_ref]

----------------------------------------------------------------------------
(* The draw-command generator (src/src/signal_canvas.rs).                  *)

max_transition_width == 6

DrawnRegion(inner, force_anti_alias) ==
    [inner |-> inner, force_anti_alias |-> force_anti_alias]

\* The sample set: <<pixel, integer time>> of every pixel whose time is in range
pixel_time(w, frame_width, x) == to_time(w.viewport, QInt(x), frame_width)

\* the pixels kept by the filter, each with its time truncated to an integer
RECURSIVE with_times(_, _, _)
with_times(w, frame_width, kept) ==
    IF kept = <<>> THEN <<>>
    ELSE <<<<kept[1], QTrunc(pixel_time(w, frame_width, kept[1]))>>>>
         \o with_times(w, frame_width, Tail(kept))

sampled(w, frame_width, kept) ==
    CHOOSE r \in {with_times(w, frame_width, k) : k \in {kept}} : TRUE

MutTimestampsOneWider(w, frame_width) ==
    LET max_time == QInt(w.num_timestamps)
        n == frame_width + 2 * max_transition_width + 1
        xs == [i \in 1..n |-> i - 1 - max_transition_width]
    IN  sampled(w, frame_width,
            SelectSeq(xs, LAMBDA x :
                ~(\/ QLt(pixel_time(w, frame_width, x), QInt(0))
                  \/ QLt(max_time, pixel_time(w, frame_width, x)))))

MutTimestampsNoUpperFilter(w, frame_width) ==
    LET n == frame_width + 2 * max_transition_width
        xs == [i \in 1..n |-> i - 1 - max_transition_width]
    IN  sampled(w, frame_width,
            SelectSeq(xs, LAMBDA x : ~QLt(pixel_time(w, frame_width, x), QInt(0))))

timestamps(w, frame_width) ==
    LET max_time == QInt(w.num_timestamps)
        n == frame_width + 2 * max_transition_width
        xs == [i \in 1..n |-> i - 1 - max_transition_width]
    IN  sampled(w, frame_width,
            SelectSeq(xs, LAMBDA x :
                ~(\/ QLt(pixel_time(w, frame_width, x), QInt(0))
                  \/ QLt(max_time, pixel_time(w, frame_width, x)))))

\* One flattened field at one translated pixel (the body of `for (path, value)`)
MutEmitNoFlush(acc, c, info, path, value) ==
    LET anti_alias == c.change_time > c.prev_time /\ path = <<>>
        new_value == path \notin DOMAIN acc.prev_values \/ acc.prev_values[path] # value
        old == IF path \in DOMAIN acc.local_commands
               THEN acc.local_commands[path]
               ELSE [is_bool |-> get_subinfo(info, path) \in {"Bool", "Clock"},
                     values |-> <<>>]
        new == [old EXCEPT !.values =
                   Append(@, <<c.pixel, DrawnRegion(value, anti_alias /\ ~new_value)>>)]
    IN  IF new_value \/ anti_alias
        THEN [acc EXCEPT !.prev_values = (path :> value) @@ @,
                         !.local_commands = (path :> new) @@ @]
        ELSE acc

MutEmitAlways(acc, c, info, path, value) ==
    LET old == IF path \in DOMAIN acc.local_commands
               THEN acc.local_commands[path]
               ELSE [is_bool |-> get_subinfo(info, path) \in {"Bool", "Clock"},
                     values |-> <<>>]
        new == [old EXCEPT !.values = Append(@, <<c.pixel, DrawnRegion(value, FALSE)>>)]
    IN  [acc EXCEPT !.prev_values = (path :> value) @@ @,
                    !.local_commands = (path :> new) @@ @]

MutForceOnEveryChange(acc, c, info, path, value) ==
    LET anti_alias == c.change_time > c.prev_time /\ path = <<>>
        new_value == path \notin DOMAIN acc.prev_values \/ acc.prev_values[path] # value
        old == IF path \in DOMAIN acc.local_commands
               THEN acc.local_commands[path]
               ELSE [is_bool |-> get_subinfo(info, path) \in {"Bool", "Clock"},
                     values |-> <<>>]
        new == [old EXCEPT !.values = Append(@, <<c.pixel, DrawnRegion(value, anti_alias)>>)]
    IN  IF new_value \/ c.is_last_timestep \/ anti_alias
        THEN [acc EXCEPT !.prev_values = (path :> value) @@ @,
                         !.local_commands = (path :> new) @@ @]
        ELSE acc

MutEmitForgetsValue(acc, c, info, path, value) ==
    LET anti_alias == c.change_time > c.prev_time /\ path = <<>>
        new_value == path \notin DOMAIN acc.prev_values \/ acc.prev_values[path] # value
        old == IF path \in DOMAIN acc.local_commands
               THEN acc.local_commands[path]
               ELSE [is_bool |-> get_subinfo(info, path) \in {"Bool", "Clock"},
                     values |-> <<>>]
        new == [old EXCEPT !.values =
                   Append(@, <<c.pixel, DrawnRegion(value, anti_alias /\ ~new_value)>>)]
    IN  IF new_value \/ c.is_last_timestep \/ anti_alias
        THEN [acc EXCEPT !.local_commands = (path :> new) @@ @]
        ELSE acc

MutAntiAliasOnEqual(acc, c, info, path, value) ==
    LET anti_alias == c.change_time >= c.prev_time /\ path = <<>>
        new_value == path \notin DOMAIN acc.prev_values \/ acc.prev_values[path] # value
        old == IF path \in DOMAIN acc.local_commands
               THEN acc.local_commands[path]
               ELSE [is_bool |-> get_subinfo(info, path) \in {"Bool", "Clock"},
                     values |-> <<>>]
        new == [old EXCEPT !.values =
                   Append(@, <<c.pixel, DrawnRegion(value, anti_alias /\ ~new_value)>>)]
    IN  IF new_value \/ c.is_last_timestep \/ anti_alias
        THEN [acc EXCEPT !.prev_values = (path :> value) @@ @,
                         !.local_commands = (path :> new) @@ @]
        ELSE acc

emit_field(acc, c, info, path, value) ==
    LET anti_alias == c.change_time > c.prev_time /\ path = <<>>
        new_value == path \notin DOMAIN acc.prev_values \/ acc.prev_values[path] # value
        is_clock_edge == /\ get_subinfo(info, path) = "Clock"
                         /\ value # None
                         /\ value[1][1] = "1"
                         /\ ~c.is_last_timestep
                         /\ ~c.is_first_timestep
        old == IF path \in DOMAIN acc.local_commands
               THEN acc.local_commands[path]
               ELSE [is_bool |-> get_subinfo(info, path) \in {"Bool", "Clock"},
                     values |-> <<>>]
        new == [old EXCEPT !.values =
                   Append(@, <<c.pixel, DrawnRegion(value, anti_alias /\ ~new_value)>>)]
    IN  IF new_value \/ c.is_last_timestep \/ anti_alias
        THEN [acc EXCEPT
                !.prev_values = (path :> value) @@ @,
                !.clock_edges = IF is_clock_edge THEN Append(@, c.pixel) ELSE @,
                !.local_commands = (path :> new) @@ @]
        ELSE acc

RECURSIVE field_loop(_, _, _, _)
field_loop(fields, acc, c, info) ==
    IF fields = <<>> THEN acc
    ELSE CHOOSE r \in
            {field_loop(Tail(fields), a, c, info) :
                a \in {emit_field(acc, c, info, fields[1][1], fields[1][2])}} : TRUE

\* The loop over consecutive sample pairs of one displayed signal; s holds what
\* is fixed for the signal, i is the index of the current sample in s.ts
RECURSIVE sample_loop(_, _, _)

\* the sample was translated into r: a failure ends the loop, otherwise the
\* flattened fields are emitted and the loop goes on
sample_translated(i, s, asked, c, r) ==
    IF ~r.ok THEN [asked EXCEPT !.failed = TRUE]
    ELSE CHOOSE res \in
            {sample_loop(i + 1, s, a) :
                a \in {field_loop(flatten(r, s.sig, s.signal_format, s.list),
                                  [asked EXCEPT !.translated = Append(@, c.pixel)],
                                  c, s.info)}} : TRUE

\* the query at the sample answered q
sample_queried(i, s, asked, c, q) ==
    IF ~q.ok \/ q.val = None THEN sample_loop(i + 1, s, asked)
    ELSE IF q.val[1][1] < c.prev_time /\ ~c.is_first_timestep /\ ~c.is_last_timestep
    THEN sample_loop(i + 1, s, asked)
    ELSE CHOOSE res \in
            {sample_translated(i, s, asked, cc, r) :
                cc \in {[c EXCEPT !.change_time = q.val[1][1]]},
                r \in {translate(s.translator, s.meta, q.val[1][2])}} : TRUE

sample_loop(i, s, acc) ==
    IF i > Len(s.ts) \/ acc.failed THEN acc
    ELSE CHOOSE res \in
            {sample_queried(i, s, asked, c, q) :
                asked \in {[acc EXCEPT !.queries = Append(@, s.ts[i][2])]},
                c \in {[pixel |-> s.ts[i][1], change_time |-> 0,
                        prev_time |-> s.ts[i - 1][2],
                        is_last_timestep |-> s.ts[i][1] = s.end_pixel,
                        is_first_timestep |-> s.ts[i][1] = s.start_pixel]},
                q \in {query_signal(s.inner, s.sig, s.ts[i][2])}} : TRUE

\* What is fixed while one displayed signal is sampled
signal_fixed(w, list, ts, sig) ==
    LET m == signal_meta(w.inner, sig)
        translator == signal_translator(w, FieldRef(sig, <<>>), list)
    IN  [inner |-> w.inner, sig |-> sig, meta |-> m.meta,
         translator |-> translator,
         info |-> signal_info(translator, m.meta).info,
         signal_format |-> w.signal_format, list |-> list, ts |-> ts,
         end_pixel |-> IF ts = <<>> THEN 0 ELSE ts[Len(ts)][1],
         start_pixel |-> IF Len(ts) < 2 THEN 0 ELSE ts[2][1]]

\* The end of the closure: a is what the sample loop left.  A failed
\* translation pushes ResetSignalFormat and returns; otherwise the commands of
\* the signal are inserted.
MutFailureKeepsEntries(g, sig, translator, a) ==
    [g EXCEPT !.clock_edges = a.clock_edges,
              !.queries = a.queries,
              !.msgs = IF a.failed
                       THEN Append(@, [type |-> "ResetSignalFormat",
                                       field |-> FieldRef(sig, <<>>)])
                       ELSE @,
              !.used = (sig :> translator) @@ @,
              !.failed = IF a.failed THEN @ \cup {sig} ELSE @,
              !.translated = IF a.failed THEN @ ELSE (sig :> a.translated) @@ @,
              !.draw_commands =
                  (IF a.local_commands = <<>> THEN <<>>
                   ELSE [f \in {FieldRef(sig, p) : p \in DOMAIN a.local_commands} |->
                           a.local_commands[f.field]]) @@ @]

MutFailureClearsAll(g, sig, translator, a) ==
    IF a.failed
    THEN [g EXCEPT !.clock_edges = a.clock_edges,
                   !.queries = a.queries,
                   !.msgs = Append(@, [type |-> "ResetSignalFormat",
                                       field |-> FieldRef(sig, <<>>)]),
                   !.used = (sig :> translator) @@ @,
                   !.failed = @ \cup {sig},
                   !.draw_commands = <<>>]
    ELSE [g EXCEPT !.clock_edges = a.clock_edges,
                   !.queries = a.queries,
                   !.used = (sig :> translator) @@ @,
                   !.translated = (sig :> a.translated) @@ @,
                   !.draw_commands =
                       (IF a.local_commands = <<>> THEN <<>>
                        ELSE [f \in {FieldRef(sig, p) : p \in DOMAIN a.local_commands} |->
                                a.local_commands[f.field]]) @@ @]

signal_store(g, sig, translator, a) ==
    IF a.failed
    THEN [g EXCEPT !.clock_edges = a.clock_edges,
                   !.queries = a.queries,
                   !.msgs = Append(@, [type |-> "ResetSignalFormat",
                                       field |-> FieldRef(sig, <<>>)]),
                   !.used = (sig :> translator) @@ @,
                   !.failed = @ \cup {sig}]
    ELSE [g EXCEPT !.clock_edges = a.clock_edges,
                   !.queries = a.queries,
                   !.used = (sig :> translator) @@ @,
                   !.translated = (sig :> a.translated) @@ @,
                   !.draw_commands =
                       (IF a.local_commands = <<>> THEN <<>>
                        ELSE [f \in {FieldRef(sig, p) : p \in DOMAIN a.local_commands} |->
                                a.local_commands[f.field]]) @@ @]

\* the sample loop of one signal from its empty accumulator, then the store
signal_run(g, s) ==
    CHOOSE r \in
        {signal_store(g, s.sig, s.translator, a) :
            a \in {sample_loop(2, s,
                     [prev_values |-> <<>>, local_commands |-> <<>>,
                      clock_edges |-> g.clock_edges, queries |-> g.queries,
                      translated |-> <<>>, failed |-> FALSE])}} : TRUE

\* The closure run for one displayed signal; g is what the pass has built so far
signal_pass(g, w, list, ts, sig) ==
    IF ~signal_meta(w.inner, sig).ok THEN [g EXCEPT !.meta_failed = @ \cup {sig}]
    ELSE IF ~signal_info(signal_translator(w, FieldRef(sig, <<>>), list),
                         signal_meta(w.inner, sig).meta).ok
    THEN [g EXCEPT !.aborted = TRUE]
    ELSE CHOOSE r \in {signal_run(g, s) : s \in {signal_fixed(w, list, ts, sig)}} : TRUE

RECURSIVE for_each_signal(_, _, _, _, _)
for_each_signal(sigs, g, w, list, ts) ==
    IF sigs = <<>> \/ g.aborted THEN g
    ELSE CHOOSE r \in
            {for_each_signal(Tail(sigs), h, w, list, ts) :
                h \in {signal_pass(g, w, list, ts, sigs[1])}} : TRUE

\* State::generate_draw_commands with waves = Some(w): the cache it stores
\* (draw_commands, clock_edges), the messages it pushes, and what it did
\* (queries made, translator used and pixels translated per signal, failures)
generate_draw_commands(w, list, width) ==
    CHOOSE r \in
        {for_each_signal(sigs,
            [draw_commands |-> <<>>, clock_edges |-> <<>>, msgs |-> <<>>,
             queries |-> <<>>, used |-> <<>>, translated |-> <<>>,
             failed |-> {}, meta_failed |-> {}, aborted |-> FALSE],
            w, list, ts) :
         sigs \in {displayed_signals(w.displayed_items)},
         ts \in {timestamps(w, width)}} : TRUE

----------------------------------------------------------------------------
(* Bounds of the model.                                                    *)

MaxItems == 2          \* displayed_items holds at most this many items
MaxOverrides == 1      \* signal_format holds at most this many entries
MaxCoord == 4          \* viewport bounds stay within -MaxCoord .. MaxCoord
\* the viewports explored have whole-number bounds
InBounds(q) == q[2] = 1 /\ Abs(q[1]) <= MaxCoord
ViewOk(vp) == InBounds(vp.curr_left) /\ InBounds(vp.curr_right)

----------------------------------------------------------------------------
(* Viewport::clip_to.  The f64 special cases of a zero span are spelled    *)
(* out: x / 0 is an infinity (or NaN for 0 / 0), and a comparison with NaN *)
(* is false.                                                               *)

QMin(a, b) == IF QLt(b, a) THEN b ELSE a
Tenth == Q(1, 10)

MutZoomRightOnly(self, curr_range, valid_range) ==
    IF QIsZero(curr_range) \/ QIsZero(valid_range) THEN self
    ELSE IF QLt(QInt(1), QDiv(Tenth, QDiv(valid_range, curr_range)))
         THEN Viewport(
                self.curr_left,
                QDiv(self.curr_right, QDiv(Tenth, QDiv(valid_range, curr_range))))
         ELSE self

\* the first step of clip_to: the zoom, given the two ranges
zoom_fixed(self, curr_range, valid_range) ==
    IF QIsZero(curr_range) THEN self                   \* 0.1 / inf = 0, or NaN
    ELSE IF QIsZero(valid_range)
         THEN IF QLt(QInt(0), curr_range)
              THEN Viewport(QInt(0), QInt(0))          \* corr_zoom = +inf
              ELSE self                                \* corr_zoom = -inf
         ELSE IF QLt(QInt(1), QDiv(Tenth, QDiv(valid_range, curr_range)))
              THEN Viewport(
                     QDiv(self.curr_left, QDiv(Tenth, QDiv(valid_range, curr_range))),
                     QDiv(self.curr_right, QDiv(Tenth, QDiv(valid_range, curr_range))))
              ELSE self

\* the last step of clip_to: the scroll, given the two corrections
MutClipScrollWrongSign(zf, corr_right, corr_left) ==
    IF QLt(corr_right, QInt(0))
    THEN Viewport(QAdd(zf.curr_left, corr_right), QAdd(zf.curr_right, corr_right))
    ELSE IF QLt(QInt(0), corr_left)
    THEN Viewport(QAdd(zf.curr_left, corr_left), QAdd(zf.curr_right, corr_left))
    ELSE zf

clip_scroll(zf, corr_right, corr_left) ==
    IF QLt(QInt(0), corr_right)
    THEN Viewport(QAdd(zf.curr_left, corr_right), QAdd(zf.curr_right, corr_right))
    ELSE IF QLt(corr_left, QInt(0))
    THEN Viewport(QAdd(zf.curr_left, corr_left), QAdd(zf.curr_right, corr_left))
    ELSE zf

MutClipCorrWideMargin(zf, valid, min_overlap) ==
    clip_scroll(zf,
                QSub(QAdd(valid.curr_left, QMul(QInt(6), min_overlap)), zf.curr_right),
                QSub(QSub(valid.curr_right, QMul(QInt(6), min_overlap)), zf.curr_left))

MutClipCorrNoMargin(zf, valid, min_overlap) ==
    clip_scroll(zf,
                QSub(valid.curr_left, zf.curr_right),
                QSub(valid.curr_right, zf.curr_left))

clip_corr(zf, valid, min_overlap) ==
    clip_scroll(zf,
                QSub(QAdd(valid.curr_left, min_overlap), zf.curr_right),
                QSub(QSub(valid.curr_right, min_overlap), zf.curr_left))

clip_ranges(self, valid, curr_range, valid_range) ==
    clip_corr(zoom_fixed(self, curr_range, valid_range), valid,
              QMul(QMin(curr_range, valid_range), Tenth))

\* Viewport::clip_to
clip_to(self, valid) ==
    clip_ranges(self, valid,
                QSub(self.curr_right, self.curr_left),
                QSub(valid.curr_right, valid.curr_left))

----------------------------------------------------------------------------
(* WaveData operations.                                                    *)

SignalItem(sig, info) == [kind |-> "Signal", signal_ref |-> sig, info |-> info, idx |-> 0]
DividerItem == [kind |-> "Divider", signal_ref |-> "", info |-> Info("", <<>>), idx |-> 0]
CursorItem(idx) == [kind |-> "Cursor", signal_ref |-> "", info |-> Info("", <<>>), idx |-> idx]

\* WaveData::add_signal
add_signal(w, list, sig) ==
    LET m == signal_meta(w.inner, sig)
        translator == signal_translator(w, FieldRef(sig, <<>>), list)
        info == signal_info(translator, m.meta).info
    IN  IF ~m.ok THEN w
        ELSE [w EXCEPT !.displayed_items = Append(@, SignalItem(sig, info))]

\* the unwrap of signal_info in WaveData::add_signal
add_signal_aborts(w, list, sig) ==
    LET m == signal_meta(w.inner, sig)
    IN  m.ok /\ ~signal_info(signal_translator(w, FieldRef(sig, <<>>), list), m.meta).ok

RECURSIVE add_signals(_, _, _)
add_signals(w, list, sigs) ==
    IF sigs = <<>> THEN w
    ELSE add_signals(add_signal(w, list, sigs[1]), list, Tail(sigs))

RECURSIVE add_signals_aborts(_, _, _)
add_signals_aborts(w, list, sigs) ==
    /\ sigs # <<>>
    /\ \/ add_signal_aborts(w, list, sigs[1])
       \/ add_signals_aborts(add_signal(w, list, sigs[1]), list, Tail(sigs))

\* WaveData::handle_canvas_zoom
handle_canvas_zoom(w, mouse_ptr_timestamp, delta) ==
    LET left == w.viewport.curr_left
        right == w.viewport.curr_right
        mid_point == QMul(QAdd(right, left), Q(1, 2))
        offset == QMul(QMul(QSub(right, left), delta), Q(1, 2))
    IN  IF mouse_ptr_timestamp # None
        THEN LET mouse_location == mouse_ptr_timestamp[1]
             IN  [w EXCEPT !.viewport =
                    Viewport(QAdd(QDiv(QSub(left, mouse_location), delta), mouse_location),
                             QAdd(QDiv(QSub(right, mouse_location), delta), mouse_location))]
        ELSE [w EXCEPT !.viewport = Viewport(QSub(mid_point, offset),
                                             QAdd(mid_point, offset))]

\* State::handle_canvas_scroll
handle_canvas_scroll(w, delta_y) ==
    LET scroll_step == QSub(QInt(0),
                            QDiv(QSub(w.viewport.curr_right, w.viewport.curr_left),
                                 QInt(50 * 20)))
        d == QMul(scroll_step, delta_y)
    IN  [w EXCEPT !.viewport = Viewport(QAdd(w.viewport.curr_left, d),
                                        QAdd(w.viewport.curr_right, d))]

\* State::go_to_start
go_to_start(w) ==
    LET width == QSub(w.viewport.curr_right, w.viewport.curr_left)
    IN  [w EXCEPT !.viewport = Viewport(QInt(0), width)]

\* State::go_to_end
go_to_end(w) ==
    LET end_point == QInt(w.num_timestamps)
        width == QSub(w.viewport.curr_right, w.viewport.curr_left)
    IN  [w EXCEPT !.viewport = Viewport(QSub(end_point, width), end_point)]

\* State::go_to_time
go_to_time(w, center) ==
    LET center_point == QInt(center)
        half_width == QDiv(QSub(w.viewport.curr_right, w.viewport.curr_left), QInt(2))
    IN  [w EXCEPT !.viewport = Viewport(QSub(center_point, half_width),
                                        QAdd(center_point, half_width))]

\* State::zoom_to_fit
zoom_to_fit(w) ==
    [w EXCEPT !.viewport = Viewport(QInt(0), QInt(w.num_timestamps))]

\* a map cut down to some of its keys (HashMap::retain, HashMap::remove)
Restrict(f, keys) == IF keys = {} THEN <<>> ELSE [k \in keys |-> f[k]]

\* WaveData::update_with: [panic, w], panic when the unwrap of signal_meta fails
\* the displayed items WaveData::update_with carries over
MutKeptItemsSignalsOnly(self, new_waves) ==
    SelectSeq(self.displayed_items, LAMBDA i :
        i.kind = "Signal" /\ signal_exists(new_waves, i.signal_ref))

kept_items(self, new_waves) ==
    SelectSeq(self.displayed_items, LAMBDA i :
        IF i.kind = "Signal" THEN signal_exists(new_waves, i.signal_ref) ELSE TRUE)

update_with(self, new_waves, num_timestamps, wave_viewport, list) ==
    LET display_items == kept_items(self, new_waves)
        nested_keys == {f \in DOMAIN self.signal_format : f.field # <<>>}
        root_keys ==
            {f \in DOMAIN self.signal_format :
                \E k \in 1..Len(display_items) :
                    LET di == display_items[k]
                        m == signal_meta(new_waves, di.signal_ref)
                    IN  /\ di.kind = "Signal"
                        /\ m.ok
                        /\ f.field = <<>>
                        /\ di.signal_ref = f.root
                        /\ is_valid_translator(list, m.meta, self.signal_format[f])}
        new_wave == [inner |-> new_waves,
                     displayed_items |-> display_items,
                     viewport |-> clip_to(self.viewport, wave_viewport),
                     signal_format |-> Restrict(self.signal_format, root_keys),
                     num_timestamps |-> num_timestamps,
                     cursor |-> self.cursor,
                     cursors |-> self.cursors,
                     focused_item |-> self.focused_item,
                     scroll |-> self.scroll]
        sigs == displayed_signals(display_items)
        retained ==
            {n \in nested_keys :
                /\ sigs # <<>>
                /\ LET meta == signal_meta(new_waves, n.root)
                       t == signal_translator(new_wave, FieldRef(sigs[1], <<>>), list)
                       info == signal_info(t, meta.meta)
                   IN  info.ok /\ has_subpath(info.info, n.field)}
        panic == sigs # <<>> /\ \E n \in nested_keys : ~signal_meta(new_waves, n.root).ok
    IN  [panic |-> panic,
         w |-> IF panic THEN self
               ELSE [new_wave EXCEPT !.signal_format =
                        Restrict(self.signal_format, root_keys \cup retained)]]

\* The loop of Message::RemoveItem
RECURSIVE remove_items(_, _, _)
remove_items(w, idx, count) ==
    IF count = 0 THEN w
    ELSE
      LET len == Len(w.displayed_items)
          w1 == IF idx < len /\ w.displayed_items[idx + 1].kind = "Cursor"
                THEN [w EXCEPT !.cursors =
                        Restrict(@, DOMAIN @ \ {w.displayed_items[idx + 1].idx})]
                ELSE w
          items == [k \in 1..(len - 1) |->
                        IF k <= idx THEN w.displayed_items[k] ELSE w.displayed_items[k + 1]]
          focus == IF w.focused_item = None THEN None
                   ELSE LET focused == w.focused_item[1]
                            f1 == IF focused = idx
                                  THEN IF idx > 0 /\ idx = len - 1 THEN Some(idx - 1)
                                       ELSE Some(focused)
                                  ELSE IF idx < focused THEN Some(focused - 1)
                                       ELSE Some(focused)
                        IN  IF items = <<>> THEN None ELSE f1
          w2 == IF len > 0 /\ idx <= len - 1
                THEN [w1 EXCEPT !.displayed_items = items, !.focused_item = focus]
                ELSE w1
      IN  remove_items(w2, idx, count - 1)

Swap(seq, i, j) == [seq EXCEPT ![i + 1] = seq[j + 1], ![j + 1] = seq[i + 1]]

Clamp(x, lo, hi) == IF x < lo THEN lo ELSE IF x > hi THEN hi ELSE x

\* MoveDir::Up of Message::MoveFocusedItem: swap(i, i - 1) for i from idx down to first
RECURSIVE move_up(_, _, _)
move_up(w, i, first) ==
    IF i < first THEN w
    ELSE move_up([w EXCEPT !.displayed_items = Swap(@, i, i - 1),
                           !.focused_item = Some(i - 1)], i - 1, first)

\* MoveDir::Down of Message::MoveFocusedItem: swap(i, i + 1) for i from idx below last
RECURSIVE move_down(_, _, _)
move_down(w, i, last) ==
    IF i >= last THEN w
    ELSE move_down([w EXCEPT !.displayed_items = Swap(@, i, i + 1),
                             !.focused_item = Some(i + 1)], i + 1, last)

\* Message::MoveFocusedItem: [panic, w]; clamp panics when min > max, swap when
\* an index is out of range
move_focused_item(w, direction, count) ==
    LET idx == w.focused_item[1]
        len == Len(w.displayed_items)
        sat == IF idx > count - 1 THEN idx - (count - 1) ELSE 0
    IN  IF w.focused_item = None \/ len = 0 THEN [panic |-> FALSE, w |-> w]
        ELSE IF direction = "Up"
        THEN IF len - 1 < 1 \/ (Clamp(sat, 1, len - 1) <= idx /\ idx >= len)
             THEN [panic |-> TRUE, w |-> w]
             ELSE [panic |-> FALSE, w |-> move_up(w, idx, Clamp(sat, 1, len - 1))]
        ELSE [panic |-> FALSE, w |-> move_down(w, idx, Clamp(idx + count, 0, len - 1))]

----------------------------------------------------------------------------
(* State::update.  A handler takes the State fields it may change,         *)
(* st = [waves, draw_data, translators, panicked], and returns them.       *)

St == [waves |-> waves, draw_data |-> draw_data, translators |-> translators,
       panicked |-> panicked]

\* State::invalidate_draw_commands
invalidate_draw_commands(st) == [st EXCEPT !.draw_data = None]

\* self.waves.as_mut().map(f)
MapWaves(st, f(_)) ==
    IF st.waves = None THEN st ELSE [st EXCEPT !.waves = Some(f(st.waves[1]))]

on_AddSignal(st, sig) ==
    IF st.waves # None /\ add_signal_aborts(st.waves[1], st.translators, sig)
    THEN [st EXCEPT !.panicked = TRUE]
    ELSE MapWaves(invalidate_draw_commands(st), LAMBDA w : add_signal(w, st.translators, sig))

on_AddDivider(st) ==
    MapWaves(st, LAMBDA w : [w EXCEPT !.displayed_items = Append(@, DividerItem)])

on_AddModule(st) ==
    IF st.waves = None THEN st
    ELSE IF add_signals_aborts(st.waves[1], st.translators,
                               signals_in_module(st.waves[1].inner))
    THEN [st EXCEPT !.panicked = TRUE]
    ELSE invalidate_draw_commands(
            MapWaves(st, LAMBDA w :
                add_signals(w, st.translators, signals_in_module(w.inner))))

on_FocusItem(st, idx) ==
    MapWaves(st, LAMBDA w :
        IF Len(w.displayed_items) > 0 /\ idx < Len(w.displayed_items)
        THEN [w EXCEPT !.focused_item = Some(idx)] ELSE w)

on_UnfocusItem(st) == MapWaves(st, LAMBDA w : [w EXCEPT !.focused_item = None])

\* usize arithmetic: an overflow panics in a build with overflow checks and
\* wraps in a build without.  The usize of the model is 8 bits wide.
usize_MAX == 255

usize_add(a, b, overflow_checks) ==
    IF a + b > usize_MAX
    THEN [panic |-> overflow_checks, val |-> (a + b) % (usize_MAX + 1)]
    ELSE [panic |-> FALSE, val |-> a + b]

usize_sub(a, b, overflow_checks) ==
    IF a < b
    THEN [panic |-> overflow_checks, val |-> (a - b) % (usize_MAX + 1)]
    ELSE [panic |-> FALSE, val |-> a - b]

\* Message::MoveFocus; the default of map_or is computed before the match
on_MoveFocus(st, direction, count, overflow_checks) ==
    LET w == st.waves[1]
        visible_signals_len == Len(w.displayed_items)
        default == usize_add(w.scroll, Clamp(count - 1, 0, visible_signals_len - 1),
                             overflow_checks)
        focused == w.focused_item[1]
    IN  IF st.waves = None \/ visible_signals_len = 0 THEN st
        ELSE IF direction = "Up"
        THEN [st EXCEPT !.waves = Some([w EXCEPT !.focused_item =
                 IF @ = None THEN Some(visible_signals_len - 1)
                 ELSE Some(focused - Clamp(count, 0, focused))])]
        ELSE IF default.panic THEN [st EXCEPT !.panicked = TRUE]
        ELSE [st EXCEPT !.waves = Some([w EXCEPT !.focused_item =
                 IF @ = None THEN Some(default.val)
                 ELSE Some(Clamp(focused + count, 0, visible_signals_len - 1))])]

\* Message::SetVerticalScroll
on_SetVerticalScroll(st, position, overflow_checks) ==
    LET w == st.waves[1]
        last == usize_sub(Len(w.displayed_items), 1, overflow_checks)
    IN  IF st.waves = None THEN st
        ELSE IF last.panic THEN [st EXCEPT !.panicked = TRUE]
        ELSE [st EXCEPT !.waves = Some([w EXCEPT !.scroll = Clamp(position, 0, last.val)])]

\* Message::VerticalScroll
on_VerticalScroll(st, direction, count, overflow_checks) ==
    LET w == st.waves[1]
        sum == usize_add(w.scroll, count, overflow_checks)
        last == usize_sub(Len(w.displayed_items), 1, overflow_checks)
    IN  IF st.waves = None THEN st
        ELSE IF direction = "Down"
        THEN IF sum.panic THEN [st EXCEPT !.panicked = TRUE]
             ELSE IF sum.val < Len(w.displayed_items)
             THEN [st EXCEPT !.waves = Some([w EXCEPT !.scroll = sum.val])]
             ELSE IF last.panic THEN [st EXCEPT !.panicked = TRUE]
             ELSE [st EXCEPT !.waves = Some([w EXCEPT !.scroll = last.val])]
        ELSE [st EXCEPT !.waves = Some([w EXCEPT !.scroll =
                 IF @ > count THEN @ - count ELSE 0])]

on_RemoveItem(st, idx, count) ==
    MapWaves(invalidate_draw_commands(st), LAMBDA w : remove_items(w, idx, count))

on_MoveFocusedItem(st, direction, count) ==
    LET inv == invalidate_draw_commands(st)
        r == move_focused_item(st.waves[1], direction, count)
    IN  IF st.waves = None THEN inv
        ELSE IF r.panic THEN [inv EXCEPT !.panicked = TRUE]
        ELSE [inv EXCEPT !.waves = Some(r.w)]

on_CanvasScroll(st, delta_y) ==
    MapWaves(invalidate_draw_commands(st), LAMBDA w : handle_canvas_scroll(w, delta_y))

on_CanvasZoom(st, mouse_ptr_timestamp, delta) ==
    MapWaves(invalidate_draw_commands(st),
             LAMBDA w : handle_canvas_zoom(w, mouse_ptr_timestamp, delta))

on_ZoomToFit(st) == MapWaves(invalidate_draw_commands(st), zoom_to_fit)

on_GoToEnd(st) == MapWaves(invalidate_draw_commands(st), go_to_end)

on_GoToStart(st) == MapWaves(invalidate_draw_commands(st), go_to_start)

MutZoomToRangeKeepsCache(st, start, end) ==
    MapWaves(st, LAMBDA w : [w EXCEPT !.viewport = Viewport(start, end)])
on_ZoomToRange(st, start, end) ==
    invalidate_draw_commands(
        MapWaves(st, LAMBDA w : [w EXCEPT !.viewport = Viewport(start, end)]))

on_SignalFormatChange(st, field, format) ==
    LET w == st.waves[1]
        w1 == [w EXCEPT !.signal_format = (field :> format) @@ @]
        m == signal_meta(w.inner, field.root)
        result == signal_info(signal_translator(w1, field, st.translators), m.meta)
        new_info == result.info
        hit == {k \in 1..Len(w.displayed_items) :
                    /\ w.displayed_items[k].kind = "Signal"
                    /\ w.displayed_items[k].signal_ref = field.root}
        first == CHOOSE k \in hit : \A j \in hit : k <= j
        w2 == IF hit = {} THEN w1
              ELSE [w1 EXCEPT !.displayed_items[first].info = new_info]
    IN  IF st.waves = None THEN st
        ELSE IF format \notin all_translator_names(st.translators) THEN st
        ELSE IF field.field # <<>>
        THEN invalidate_draw_commands([st EXCEPT !.waves = Some(w1)])
        ELSE IF ~m.ok THEN [st EXCEPT !.waves = Some(w1)]
        ELSE IF ~result.ok THEN [st EXCEPT !.panicked = TRUE]
        ELSE invalidate_draw_commands([st EXCEPT !.waves = Some(w2)])

on_ResetSignalFormat(st, idx) ==
    MapWaves(invalidate_draw_commands(st), LAMBDA w :
        [w EXCEPT !.signal_format = Restrict(@, DOMAIN @ \ {idx})])

on_CursorSet(st, new) == MapWaves(st, LAMBDA w : [w EXCEPT !.cursor = Some(new)])

MutSetCursorAlwaysPushes(st, idx) ==
    MapWaves(st, LAMBDA w :
        IF w.cursor = None THEN w
        ELSE [w EXCEPT !.displayed_items = Append(@, CursorItem(idx)),
                       !.cursors = (idx :> w.cursor[1]) @@ @])

on_SetCursorPosition(st, idx) ==
    MapWaves(st, LAMBDA w :
        IF w.cursor = None THEN w
        ELSE [w EXCEPT
                !.displayed_items =
                    IF \E k \in 1..Len(@) : @[k].kind = "Cursor" /\ @[k].idx = idx
                    THEN @ ELSE Append(@, CursorItem(idx)),
                !.cursors = (idx :> w.cursor[1]) @@ @])

on_GoToCursorPosition(st, idx) ==
    IF st.waves = None THEN st
    ELSE IF idx \in DOMAIN st.waves[1].cursors
    THEN invalidate_draw_commands(
            MapWaves(st, LAMBDA w : go_to_time(w, w.cursors[idx])))
    ELSE st

on_TranslatorLoaded(st, t) == [st EXCEPT !.translators = translators_add(@, t)]

\* the waves a load starts from when nothing is kept
new_wave_data(new_waves, num_timestamps) ==
    [inner |-> new_waves,
     displayed_items |-> <<>>,
     viewport |-> Viewport(QInt(0), QInt(num_timestamps)),
     signal_format |-> <<>>,
     num_timestamps |-> num_timestamps,
     cursor |-> None,
     cursors |-> <<>>,
     focused_item |-> None,
     scroll |-> 0]

waves_updated(st, r) ==
    IF r.panic THEN [st EXCEPT !.panicked = TRUE]
    ELSE invalidate_draw_commands([st EXCEPT !.waves = Some(r.w)])

waves_loaded(st, new_waves, keep_signals, num_timestamps) ==
    IF keep_signals /\ st.waves # None
    THEN waves_updated(st, update_with(st.waves[1], new_waves, num_timestamps,
                                       Viewport(QInt(0), QInt(num_timestamps)),
                                       st.translators))
    ELSE invalidate_draw_commands(
            [st EXCEPT !.waves = Some(new_wave_data(new_waves, num_timestamps))])

on_WavesLoaded(st, new_waves, keep_signals) ==
    waves_loaded(st, new_waves, keep_signals,
                 IF Trace(new_waves).max_timestamp = None THEN 1
                 ELSE Trace(new_waves).max_timestamp[1])

\* The match of State::update, for the messages the generator pushes
update(st, message) ==
    CASE message.type = "ResetSignalFormat" -> on_ResetSignalFormat(st, message.field)

----------------------------------------------------------------------------
(* The state machine.                                                      *)

Widths == {2, 4}

Capped(st) ==
    st.waves # None =>
        /\ Len(st.waves[1].displayed_items) <= MaxItems
        /\ Cardinality(DOMAIN st.waves[1].signal_format) <= MaxOverrides
        /\ ViewOk(st.waves[1].viewport)
        /\ st.waves[1].scroll \in 0..MaxItems \cup {usize_MAX}
        /\ st.waves[1].focused_item \in {None} \cup {Some(i) : i \in 0..MaxItems}

Do(st) ==
    /\ ~panicked
    /\ \E s \in {st} :
          /\ Capped(s)
          /\ waves' = s.waves
          /\ draw_data' = s.draw_data
          /\ translators' = s.translators
          /\ panicked' = s.panicked
          /\ last_pass' = IF s.draw_data = None THEN None ELSE last_pass

Quiet == UNCHANGED <<last_canvas_rect, canvas, msgs, fn_in, fn_out,
                   channel, workers, vcd_progress, loads>>

FormatFields ==
    {FieldRef("clk", <<>>), FieldRef("bus", <<>>), FieldRef("bus", <<"v">>)}

FormatNames == {"Clock", "Hexadecimal", "nosuch"}

Init ==
    /\ waves = None
    /\ translators = BasicTranslators
    /\ draw_data = None
    /\ last_canvas_rect = None
    /\ canvas = 4
    /\ msgs = <<>>
    /\ last_pass = None
    /\ panicked = FALSE
    /\ fn_in = None
    /\ fn_out = None
    /\ NoLoads

AddSignal == \E sig \in VarNames : Do(on_AddSignal(St, sig)) /\ Quiet

AddDivider == Do(on_AddDivider(St)) /\ Quiet

AddModule == Do(on_AddModule(St)) /\ Quiet

FocusItem == \E idx \in 0..(MaxItems - 1) : Do(on_FocusItem(St, idx)) /\ Quiet

RemoveItem ==
    \E idx \in 0..(MaxItems - 1), count \in 1..2 :
        idx + count <= MaxItems /\ Do(on_RemoveItem(St, idx, count)) /\ Quiet

MoveFocusedItem ==
    \E direction \in {"Up", "Down"}, count \in 1..2 :
        Do(on_MoveFocusedItem(St, direction, count)) /\ Quiet

CanvasScroll == \E delta_y \in {-500, 500} : Do(on_CanvasScroll(St, QInt(delta_y))) /\ Quiet

CanvasZoom ==
    \E mouse \in {None, Some(QInt(0))}, delta \in {Q(1, 2), QInt(2)} :
        Do(on_CanvasZoom(St, mouse, delta)) /\ Quiet

ZoomToFit == Do(on_ZoomToFit(St)) /\ Quiet

GoToEnd == Do(on_GoToEnd(St)) /\ Quiet

GoToStart == Do(on_GoToStart(St)) /\ Quiet

\* the zoom-in gesture: the times of two canvas pixels minx < maxx
ZoomToRange ==
    /\ waves # None
    /\ \E minx \in {0, canvas \div 2}, maxx \in {canvas \div 2, canvas} :
          minx < maxx /\
          Do(on_ZoomToRange(St, to_time(waves[1].viewport, QInt(minx), canvas),
                                to_time(waves[1].viewport, QInt(maxx), canvas)))
    /\ Quiet

SignalFormatChange ==
    \E field \in FormatFields, format \in FormatNames :
        Do(on_SignalFormatChange(St, field, format)) /\ Quiet

ResetSignalFormat ==
    \E field \in FormatFields : Do(on_ResetSignalFormat(St, field)) /\ Quiet

CursorSet == \E new \in {4} : Do(on_CursorSet(St, new)) /\ Quiet

SetCursorPosition == Do(on_SetCursorPosition(St, 1)) /\ Quiet

GoToCursorPosition == Do(on_GoToCursorPosition(St, 1)) /\ Quiet

\* sent once, by the worker State::new starts
TranslatorLoaded ==
    /\ "spade" \notin all_translator_names(translators)
    /\ Do(on_TranslatorLoaded(St, "spade"))
    /\ Quiet

WavesLoaded ==
    \E new_waves \in TraceIds, keep_signals \in BOOLEAN :
        Do(on_WavesLoaded(St, new_waves, keep_signals)) /\ Quiet

\* State::draw_signals up to the call of generate_draw_commands.  The pass
\* borrows the state immutably: it stores the cache and pushes messages, and
\* the unwrap of signal_info aborts it.
MutPassResetsFormat ==
    /\ ~panicked
    /\ msgs = <<>>
    /\ ~(draw_data # None /\ Some(canvas) = last_canvas_rect)
    /\ waves # None
    /\ \E g \in {generate_draw_commands(waves[1], translators, canvas)} :
          /\ ~g.aborted
          /\ draw_data' = Some([draw_commands |-> g.draw_commands,
                               clock_edges |-> g.clock_edges])
          /\ msgs' = g.msgs
          /\ last_pass' = Some([w |-> waves[1], list |-> translators,
                                width |-> canvas, pass |-> g])
          /\ waves' = Some([waves[1] EXCEPT !.signal_format =
                              Restrict(@, DOMAIN @ \ {FieldRef(sig, <<>>) : sig \in g.failed})])
    /\ last_canvas_rect' = Some(canvas)
    /\ UNCHANGED <<translators, canvas, panicked, fn_in, fn_out,
                   channel, workers, vcd_progress, loads>>

DrawSignals ==
    /\ ~panicked
    /\ msgs = <<>>
    /\ ~(draw_data # None /\ Some(canvas) = last_canvas_rect)
    /\ IF waves = None
       THEN /\ last_canvas_rect' = Some(canvas)
            /\ UNCHANGED <<draw_data, msgs, last_pass, panicked>>
       ELSE \E g \in {generate_draw_commands(waves[1], translators, canvas)} :
                IF g.aborted
                THEN /\ panicked' = TRUE
                     /\ UNCHANGED <<draw_data, msgs, last_pass, last_canvas_rect>>
                ELSE /\ draw_data' = Some([draw_commands |-> g.draw_commands,
                                          clock_edges |-> g.clock_edges])
                     /\ msgs' = g.msgs
                     /\ last_pass' = Some([w |-> waves[1], list |-> translators,
                                           width |-> canvas, pass |-> g])
                     /\ last_canvas_rect' = Some(canvas)
                     /\ UNCHANGED panicked
    /\ UNCHANGED <<waves, translators, canvas, fn_in, fn_out,
                   channel, workers, vcd_progress, loads>>

\* the messages of the frame are handed to State::update in order
ProcessMsg ==
    /\ msgs # <<>>
    /\ Do(update(St, Head(msgs)))
    /\ msgs' = Tail(msgs)
    /\ UNCHANGED <<last_canvas_rect, canvas, fn_in, fn_out,
                   channel, workers, vcd_progress, loads>>

\* The user adds, removes and moves items, pans and zooms, sets cursors and
\* loads traces, and the frame regenerates the draw commands.
Next ==
    \/ AddSignal \/ AddModule \/ FocusItem \/ RemoveItem
    \/ MoveFocusedItem \/ CanvasScroll \/ CanvasZoom \/ ZoomToFit \/ GoToEnd
    \/ GoToStart \/ ZoomToRange
    \/ CursorSet \/ SetCursorPosition \/ GoToCursorPosition
    \/ WavesLoaded \/ DrawSignals

Spec == Init /\ [][Next]_vars

\* Formats and translators: the user adds signals and dividers and changes
\* and resets formats, the background worker delivers its translator, traces
\* are loaded, and the frame regenerates and hands back its messages.
NextFormat ==
    \/ AddSignal \/ AddDivider \/ SignalFormatChange \/ ResetSignalFormat
    \/ TranslatorLoaded \/ WavesLoaded \/ DrawSignals \/ ProcessMsg

SpecFormat == Init /\ [][NextFormat]_vars

\* Reloads: the user adds signals and dividers, sets the cursor and stores
\* it as a numbered cursor, and loads traces, keeping the signals or not.
NextReload ==
    \/ AddSignal \/ AddDivider \/ CursorSet \/ SetCursorPosition \/ WavesLoaded

SpecReload == Init /\ [][NextReload]_vars

UnfocusItem == Do(on_UnfocusItem(St)) /\ Quiet

MoveFocus ==
    \E direction \in {"Up", "Down"}, count \in 1..2, overflow_checks \in BOOLEAN :
        Do(on_MoveFocus(St, direction, count, overflow_checks)) /\ Quiet

SetVerticalScroll ==
    \E position \in 0..MaxItems, overflow_checks \in BOOLEAN :
        Do(on_SetVerticalScroll(St, position, overflow_checks)) /\ Quiet

VerticalScroll ==
    \E direction \in {"Up", "Down"}, count \in 1..2, overflow_checks \in BOOLEAN :
        Do(on_VerticalScroll(St, direction, count, overflow_checks)) /\ Quiet

SetCursorPositionAt == \E idx \in 1..2 : Do(on_SetCursorPosition(St, idx)) /\ Quiet

\* The list of displayed items: the user adds, removes and moves items, moves
\* the focus, scrolls the list, stores cursors and loads traces.
NextItems ==
    \/ AddSignal \/ AddDivider \/ FocusItem \/ UnfocusItem \/ MoveFocus
    \/ MoveFocusedItem \/ RemoveItem \/ SetVerticalScroll \/ VerticalScroll
    \/ CursorSet \/ SetCursorPositionAt \/ WavesLoaded

SpecItems == Init /\ [][NextItems]_vars

-----------------------------------------------------------------------------
(* The generator on prepared sessions: each initial state is the outcome of *)
(* a short run of State::update (a trace loaded, the translator delivered   *)
(* or not, signals added, formats chosen, the trace reloaded or not, a      *)
(* range zoomed to), and from there only the frame runs.                    *)

Fresh == [waves |-> None, draw_data |-> None, translators |-> BasicTranslators,
          panicked |-> FALSE]

RECURSIVE AddAll(_, _)
AddAll(st, sigs) ==
    IF sigs = <<>> THEN st ELSE AddAll(on_AddSignal(st, sigs[1]), Tail(sigs))

RECURSIVE FormatAll(_, _)
FormatAll(st, overrides) ==
    IF overrides = {} THEN st
    ELSE LET o == CHOOSE x \in overrides : TRUE
         IN  FormatAll(on_SignalFormatChange(st, o[1], o[2]), overrides \ {o})

GenSignals == UNION {[1..n -> {"clk", "bus"}] : n \in 0..MaxItems}

GenOverrides ==
    {o \in SUBSET {<<FieldRef("clk", <<>>), "Clock">>,
                   <<FieldRef("clk", <<>>), "Hexadecimal">>,
                   <<FieldRef("bus", <<>>), "Clock">>,
                   <<FieldRef("bus", <<"v">>), "Hexadecimal">>} :
        /\ Cardinality(o) <= MaxOverrides
        /\ \A x, y \in o : x[1] = y[1] => x = y}

\* <<>> keeps the viewport of the load; the others are zoomed to
GenViews ==
    {<<>>, <<QInt(0), QInt(1)>>, <<QInt(0), Q(3, 2)>>, <<QInt(1), QInt(3)>>,
     <<QInt(-2), QInt(2)>>, <<QInt(0), QInt(8)>>, <<QInt(9), QInt(13)>>,
     <<QInt(-1), Q(-1, 2)>>}

Loaded == {on_WavesLoaded(Fresh, id, FALSE) : id \in {"A", "Z"}}

WithTranslator ==
    {IF spade THEN on_TranslatorLoaded(st, "spade") ELSE st :
        st \in Loaded, spade \in BOOLEAN}

WithSignals == {AddAll(st, sigs) : st \in WithTranslator, sigs \in GenSignals}

WithFormats == {FormatAll(st, o) : st \in WithSignals, o \in GenOverrides}

Reloaded ==
    {IF reload /\ st.waves[1].inner = "A" THEN on_WavesLoaded(st, "M", TRUE) ELSE st :
        st \in WithFormats, reload \in BOOLEAN}

Zoomed ==
    {IF view = <<>> \/ st.panicked THEN st ELSE on_ZoomToRange(st, view[1], view[2]) :
        st \in Reloaded, view \in GenViews}

Prepared == {st \in Zoomed : ~st.panicked}

StartsFrom(sessions) ==
    /\ \E s \in sessions :
          /\ waves = s.waves
          /\ translators = s.translators
          /\ draw_data = s.draw_data
    /\ canvas \in Widths
    /\ last_canvas_rect = None
    /\ msgs = <<>>
    /\ last_pass = None
    /\ panicked = FALSE
    /\ fn_in = None
    /\ fn_out = None
    /\ NoLoads

InitGen == StartsFrom(Prepared)

\* the window is resized
Resize ==
    /\ ~panicked
    /\ canvas' \in Widths \ {canvas}
    /\ UNCHANGED <<waves, translators, draw_data, last_canvas_rect, msgs, last_pass,
                   panicked, fn_in, fn_out,
                   channel, workers, vcd_progress, loads>>

NextGen == DrawSignals \/ ProcessMsg \/ Resize

SpecGen == InitGen /\ [][NextGen]_vars

\* The generator against every outcome of its collaborators: the sessions
\* over trace A, kept or reloaded with their signals into M (the metadata of
\* the bus fails), Q (the query of the clock fails) or W (the signal_info
\* of the delivered translator fails for the bus).
OutcomeSessions ==
    {st \in {IF id = "A" THEN s ELSE on_WavesLoaded(s, id, TRUE) :
                s \in {x \in WithFormats : x.waves[1].inner = "A"},
                id \in {"A", "M", "Q", "W"}} : ~st.panicked}

InitOutcome == StartsFrom(OutcomeSessions)

NextOutcome == DrawSignals \/ ProcessMsg \/ Resize

SpecOutcome == InitOutcome /\ [][NextOutcome]_vars

\* The frame loop left to itself: every frame calls draw_signals and hands the
\* messages of the frame to State::update, so neither waits forever.
NextFrame == DrawSignals \/ ProcessMsg

InitFrame == StartsFrom({st \in Reloaded : ~st.panicked})

FairFrame ==
    InitFrame /\ [][NextFrame]_vars /\ WF_vars(DrawSignals) /\ WF_vars(ProcessMsg)

-----------------------------------------------------------------------------
(* Loading traces (src/src/wave_source.rs): a load starts a worker, the     *)
(* worker sends its result on the channel, and every frame                  *)
(* handle_async_messages receives what is in the channel and hands it to    *)
(* State::update.  A source is named by the trace it holds.                 *)

MaxLoads == 2          \* loads requested in a session

LoadSources == {"A", "B"}

Task(n, kind, source, keep_signals) ==
    [n |-> n, kind |-> kind, source |-> source, keep_signals |-> keep_signals]

Msg(type, n, source, keep_signals) ==
    [type |-> type, n |-> n, source |-> source, keep_signals |-> keep_signals]

\* the loop of try_recv: the messages in the order they were received
try_recv_all(chan) == chan

\* while let Some(msg) = msgs.pop(): the order in which update is called
RECURSIVE pop_order(_)
pop_order(received) ==
    IF received = <<>> THEN <<>>
    ELSE <<received[Len(received)]>> \o pop_order(SubSeq(received, 1, Len(received) - 1))

\* The loader side of a state: ls = [st, vcd_progress, workers]
load_vcd_from_file(ls, n, source, keep_signals) ==
    [ls EXCEPT !.workers = @ \cup {Task(n, "parse", source, keep_signals)}]

load_vcd_from_url(ls, n, url, keep_signals) ==
    [ls EXCEPT !.workers = @ \cup {Task(n, "download", url, keep_signals)},
               !.vcd_progress = Some("Downloading")]

load_vcd_from_bytes(ls, n, source, keep_signals) ==
    [ls EXCEPT !.workers = @ \cup {Task(n, "parse", source, keep_signals)},
               !.vcd_progress = Some("Loading")]

\* State::update for the messages the workers send
update_async(ls, msg) ==
    CASE msg.type = "WavesLoaded" ->
           [ls EXCEPT !.st = on_WavesLoaded(ls.st, msg.source, msg.keep_signals),
                      !.vcd_progress = None]
      [] msg.type = "Error" -> ls
      [] msg.type = "FileDownloaded" ->
           load_vcd_from_bytes(ls, msg.n, msg.source, msg.keep_signals)

RECURSIVE update_all(_, _)
update_all(ls, ms) ==
    IF ms = <<>> THEN ls
    ELSE update_all(CHOOSE r \in {update_async(x, m) : x \in {ls}, m \in {ms[1]}} : TRUE,
                    Tail(ms))

\* State::handle_async_messages
handle_async_messages(ls, chan) == update_all(ls, pop_order(try_recv_all(chan)))

\* the messages of up to MaxLoads loads, waiting in the channel
AsyncCalls ==
    {[fn |-> "handle_async_messages", chan |-> chan] :
        chan \in UNION {[1..k -> {Msg(type, n, source, FALSE) :
                                    type \in {"WavesLoaded", "Error", "FileDownloaded"},
                                    n \in 1..MaxLoads, source \in LoadSources}] :
                          k \in 0..MaxLoads}}

Ls == [st |-> St, vcd_progress |-> vcd_progress, workers |-> workers]

Loader(ls) ==
    /\ Do(ls.st)
    /\ vcd_progress' = ls.vcd_progress
    /\ workers' = ls.workers

Requested(source) ==
    /\ Len(loads) < MaxLoads
    /\ loads' = Append(loads, [source |-> source, result |-> "pending",
                               overlapped |-> \E k \in 1..Len(loads) :
                                                 loads[k].result = "pending"])
    /\ UNCHANGED <<last_canvas_rect, canvas, msgs, fn_in, fn_out, channel>>

\* Message::LoadVcd
LoadVcd ==
    \E source \in LoadSources :
        /\ Loader(load_vcd_from_file(Ls, Len(loads) + 1, source, FALSE))
        /\ Requested(source)

\* Message::LoadVcdFromUrl
LoadVcdFromUrl ==
    \E url \in LoadSources :
        /\ Loader(load_vcd_from_url(Ls, Len(loads) + 1, url, FALSE))
        /\ Requested(url)

\* Message::FileDropped, of a file with bytes
FileDropped ==
    \E source \in LoadSources :
        /\ Loader(load_vcd_from_bytes(Ls, Len(loads) + 1, source, FALSE))
        /\ Requested(source)

\* what a worker sends: a parse gives the trace or fails, a download gives
\* the bytes or fails
Reports(task) ==
    {Msg("Error", task.n, task.source, task.keep_signals),
     Msg(IF task.kind = "parse" THEN "WavesLoaded" ELSE "FileDownloaded",
         task.n, task.source, task.keep_signals)}

\* a worker sends its result and ends
WorkerReports ==
    \E task \in workers : \E msg \in Reports(task) :
        /\ ~panicked
        /\ workers' = workers \ {task}
        /\ channel' = Append(channel, msg)
        /\ loads' = [loads EXCEPT ![task.n].result =
                        IF msg.type = "Error" THEN "error"
                        ELSE IF msg.type = "WavesLoaded" THEN "loaded"
                        ELSE @]
        /\ UNCHANGED <<waves, translators, draw_data, last_canvas_rect, canvas, msgs,
                       last_pass, panicked, fn_in, fn_out, vcd_progress>>

\* the frame receives the messages of the workers
HandleAsyncMessages ==
    /\ channel # <<>>
    /\ Loader(handle_async_messages(Ls, channel))
    /\ channel' = <<>>
    /\ UNCHANGED <<last_canvas_rect, canvas, msgs, fn_in, fn_out, loads>>

NextLoad ==
    \/ LoadVcd \/ LoadVcdFromUrl \/ FileDropped \/ WorkerReports
    \/ HandleAsyncMessages

SpecLoad == Init /\ [][NextLoad]_vars

-----------------------------------------------------------------------------
(* The pure functions on enumerated inputs: fn_in is the call, fn_out the   *)
(* value it returned.                                                       *)

MaxTranslators == 3    \* translators registered in a call of select_preferred_translator
MaxBits == 2           \* widths and value lengths in a call of the Clock translator

Preference == {"Prefer", "Yes", "No", "Err"}

SelectCalls ==
    {[fn |-> "select_preferred_translator",
      tl |-> [i \in 1..Len(prefs) |-> <<<<"translator", i>>, prefs[i]>>],
      default |-> DefaultTranslator] :
        prefs \in UNION {[1..n -> Preference] : n \in 0..MaxTranslators}}

ClockCalls ==
    {[fn |-> "ClockTranslator", meta |-> [name |-> "clk", bits |-> bits], value |-> value] :
        bits \in 0..(MaxBits + 1),
        value \in UNION {[1..n -> {"0", "1", "x", "z"}] : n \in 1..MaxBits}}

\* viewports on a coarse grid against valid ranges on a fine one, so that a
\* viewport can be more than ten times as wide as the valid range
ClipCalls ==
    {[fn |-> "clip_to",
      self |-> Viewport(QInt(4 * l), QInt(4 * r)),
      valid |-> Viewport(QInt(vl), QInt(vr))] :
        l \in (-MaxCoord)..MaxCoord, r \in (-MaxCoord)..MaxCoord,
        vl \in 0..MaxCoord, vr \in 0..MaxCoord}

\* pixels and half pixels of a canvas, on every viewport with a span
RoundTripCalls ==
    {c \in {[fn |-> "round_trip", vp |-> Viewport(QInt(l), QInt(r)), w |-> w,
             x |-> Q(k, 2)] :
               l \in (-MaxCoord)..MaxCoord, r \in (-MaxCoord)..MaxCoord,
               w \in 1..MaxCoord, k \in 0..(2 * MaxCoord)} :
        c.vp.curr_left # c.vp.curr_right /\ QLe(c.x, QInt(c.w))}

----------------------------------------------------------------------------
(* Time formatting (src/src/time.rs).  A string is the sequence of its      *)
(* characters.                                                              *)

Digit == <<"0", "1", "2", "3", "4", "5", "6", "7", "8", "9">>

RECURSIVE Pow10(_)
Pow10(k) == IF k = 0 THEN 1 ELSE 10 * Pow10(k - 1)

\* Display of a non-negative integer
RECURSIVE DecStr(_)
DecStr(n) == IF n < 10 THEN <<Digit[n + 1]>>
             ELSE DecStr(n \div 10) \o <<Digit[(n % 10) + 1]>>

\* the k digits of n < 10^k, leading zeros included
RECURSIVE Padded(_, _)
Padded(n, k) == IF k = 0 THEN <<>>
                ELSE Padded(n \div 10, k - 1) \o <<Digit[(n % 10) + 1]>>

\* format!("{}", n) of a BigInt
display_int(n) == IF n < 0 THEN <<"-">> \o DecStr(-n) ELSE DecStr(n)

\* format!("{:.precision$}", n / 10^precision as f64): the integer part, and
\* for a precision above 0 the point and `precision` digits
MutFixedUnpadded(n, precision) ==
    (IF n < 0 THEN <<"-">> ELSE <<>>)
    \o DecStr(Abs(n) \div Pow10(precision))
    \o (IF precision = 0 THEN <<>>
        ELSE <<".">> \o DecStr(Abs(n) % Pow10(precision)))

display_fixed(n, precision) ==
    (IF n < 0 THEN <<"-">> ELSE <<>>)
    \o DecStr(Abs(n) \div Pow10(precision))
    \o (IF precision = 0 THEN <<>>
        ELSE <<".">> \o Padded(Abs(n) % Pow10(precision), precision))

\* TimescaleUnit::to_exponent
to_exponent(unit) ==
    CASE unit = "fs" -> -15
      [] unit = "ps" -> -12
      [] unit = "ns" -> -9
      [] unit = "us" -> -6
      [] unit = "ms" -> -3
      [] unit = "s" -> 0

Timescale(factor, unit) == [factor |-> factor, unit |-> unit]

\* time::time_string: the scaled time as it is printed, and the timescale
\* that is printed after the space
time_string(time, data_timescale, wanted_timescale) ==
    LET wanted_exponent == to_exponent(wanted_timescale.unit)
        data_exponent == to_exponent(data_timescale.unit)
        exponent_diff == wanted_exponent - data_exponent
    IN  IF exponent_diff >= 0
        THEN [scaledtime |-> display_fixed(time * data_timescale.factor, exponent_diff),
              wanted_timescale |-> wanted_timescale]
        ELSE [scaledtime |-> display_int(time * data_timescale.factor
                                          * Pow10(-exponent_diff)),
              wanted_timescale |-> wanted_timescale]

\* timestamps and factors against the units from ps to ms, as far as the
\* scaled integers stay below 10^9
TimeCalls ==
    {c \in {[fn |-> "time_string", time |-> t,
             data |-> Timescale(f, du), wanted |-> Timescale(1, wu)] :
                t \in {-1500, -2, 0, 2, 15, 1500}, f \in {1, 10},
                du \in {"ps", "ns", "us", "ms"}, wu \in {"ps", "ns", "us", "ms"}} :
        Abs(c.time) * c.data.factor
            < Pow10(9 - Abs(to_exponent(c.wanted.unit) - to_exponent(c.data.unit)))}

\* string values over the four-value characters, up to four characters at
\* MaxBits = 2, and byte values of one and two bytes
NumericCalls ==
    {[fn |-> "basic_translate", num_bits |-> Len(v), value |-> String(v)] :
        v \in UNION {[1..n -> {"0", "1", "x", "z", "-"}] : n \in 1..(MaxBits + 2)}}
    \cup
    {[fn |-> "basic_translate", num_bits |-> 8 * Len(b), value |-> Binary(b)] :
        b \in UNION {[1..n -> {0, 1, 10, 255}] : n \in 1..MaxBits}}

----------------------------------------------------------------------------
(* Variable names (src/src/wave_container.rs).  A string is the sequence   *)
(* of its characters.                                                       *)

MaxChars == 4          \* characters of a hierarchy string

\* str::split('.'): the segments between the dots, empty ones included, and
\* one empty segment for the empty string
RECURSIVE MutSplitSkipsEmpty(_)
MutSplitSkipsEmpty(str) ==
    LET dots == {k \in 1..Len(str) : str[k] = "."}
        first == CHOOSE k \in dots : \A j \in dots : k <= j
    IN  IF str = <<>> THEN <<>>
        ELSE IF dots = {} THEN <<str>>
        ELSE (IF first = 1 THEN <<>> ELSE <<SubSeq(str, 1, first - 1)>>)
             \o MutSplitSkipsEmpty(SubSeq(str, first + 1, Len(str)))

RECURSIVE split(_)
split(str) ==
    LET dots == {k \in 1..Len(str) : str[k] = "."}
        first == CHOOSE k \in dots : \A j \in dots : k <= j
    IN  IF dots = {} THEN <<str>>
        ELSE <<SubSeq(str, 1, first - 1)>> \o split(SubSeq(str, first + 1, Len(str)))

\* [String]::join(".")
RECURSIVE join(_)
join(parts) ==
    IF parts = <<>> THEN <<>>
    ELSE IF Len(parts) = 1 THEN parts[1]
    ELSE parts[1] \o <<".">> \o join(Tail(parts))

\* VarName::from_hierarchy_string
from_hierarchy_string(str) ==
    LET components == split(str)
    IN  IF components = <<>>
        THEN [path |-> <<>>, name |-> <<>>]
        ELSE [path |-> SubSeq(components, 1, Len(components) - 1),
              name |-> components[Len(components)]]

\* VarName::full_path_string
full_path_string(self) ==
    IF self.path = <<>> THEN self.name
    ELSE join(self.path) \o <<".">> \o self.name

\* VarName::full_path
full_path(self) == self.path \o <<self.name>>

NameCalls ==
    {[fn |-> "from_hierarchy_string", s |-> str] :
        str \in UNION {[1..n -> {"a", "b", "."}] : n \in 0..MaxChars}}

MaxEdges == 3          \* clock edges in a cache handed to the shading decision

\* State::draw_signals: `let draw_clock_edges = match clock_edges.as_slice()`
MutShadeFromFifteen(clock_edges) ==
    CASE Len(clock_edges) = 0 -> FALSE
      [] Len(clock_edges) = 1 -> TRUE
      [] OTHER -> clock_edges[2] - clock_edges[1] >= 15

draw_clock_edges(clock_edges) ==
    CASE Len(clock_edges) = 0 -> FALSE
      [] Len(clock_edges) = 1 -> TRUE
      [] OTHER -> clock_edges[2] - clock_edges[1] > 15

\* edge lists over pixels that are 10, 15, 16 and 20 apart
ShadeCalls ==
    {[fn |-> "draw_clock_edges", clock_edges |-> e] :
        e \in UNION {[1..n -> {0, 10, 20, 25, 26, 30}] : n \in 0..MaxEdges}}

InitFn ==
    /\ fn_in \in SelectCalls \cup ClockCalls \cup ClipCalls \cup RoundTripCalls
                \cup ShadeCalls \cup TimeCalls \cup NumericCalls \cup NameCalls
                \cup AsyncCalls
    /\ fn_out = None
    /\ waves = None
    /\ translators = BasicTranslators
    /\ draw_data = None
    /\ last_canvas_rect = None
    /\ canvas = 4
    /\ msgs = <<>>
    /\ last_pass = None
    /\ panicked = FALSE
    /\ NoLoads

Frozen == UNCHANGED <<waves, translators, draw_data, last_canvas_rect, canvas, msgs,
                      last_pass, panicked, fn_in, channel, workers, vcd_progress, loads>>

CallSelectPreferred ==
    /\ fn_out = None
    /\ fn_in.fn = "select_preferred_translator"
    /\ fn_out' = Some(select_preferred_translator(fn_in.tl, fn_in.default))
    /\ Frozen

CallClock ==
    /\ fn_out = None
    /\ fn_in.fn = "ClockTranslator"
    /\ fn_out' = Some([translate |-> clock_translate(fn_in.meta, fn_in.value),
                       translates |-> clock_translates(fn_in.meta),
                       signal_info |-> clock_signal_info(fn_in.meta)])
    /\ Frozen

\* clip_to with the viewport after its zoom step, and clip_to again on its
\* result
CallClipTo ==
    /\ fn_out = None
    /\ fn_in.fn = "clip_to"
    /\ \E once \in {clip_to(fn_in.self, fn_in.valid)} :
          fn_out' = Some([once |-> once, twice |-> clip_to(once, fn_in.valid),
                          zoomed |-> zoom_fixed(fn_in.self,
                                     QSub(fn_in.self.curr_right, fn_in.self.curr_left),
                                     QSub(fn_in.valid.curr_right, fn_in.valid.curr_left))])
    /\ Frozen

\* to_time of a pixel, rounded to a timestamp as the cursor is set, and
\* from_time of that timestamp
CallRoundTrip ==
    /\ fn_out = None
    /\ fn_in.fn = "round_trip"
    /\ \E time \in {to_time(fn_in.vp, fn_in.x, fn_in.w)} :
          fn_out' = Some([time |-> time,
                          back |-> from_time(fn_in.vp, QRound(time), fn_in.w)])
    /\ Frozen

CallDrawClockEdges ==
    /\ fn_out = None
    /\ fn_in.fn = "draw_clock_edges"
    /\ fn_out' = Some([shade |-> draw_clock_edges(fn_in.clock_edges)])
    /\ Frozen

CallTimeString ==
    /\ fn_out = None
    /\ fn_in.fn = "time_string"
    /\ fn_out' = Some(time_string(fn_in.time, fn_in.data, fn_in.wanted))
    /\ Frozen

CallBasicTranslate ==
    /\ fn_out = None
    /\ fn_in.fn = "basic_translate"
    /\ fn_out' = Some(basic_translate(fn_in.num_bits, fn_in.value))
    /\ Frozen

CallFromHierarchyString ==
    /\ fn_out = None
    /\ fn_in.fn = "from_hierarchy_string"
    /\ \E name \in {from_hierarchy_string(fn_in.s)} :
          fn_out' = Some([var |-> name, string |-> full_path_string(name),
                          full |-> full_path(name)])
    /\ Frozen

\* handle_async_messages on a state without trace: what it received, and the
\* messages in the order it gave them to update
CallHandleAsyncMessages ==
    /\ fn_out = None
    /\ fn_in.fn = "handle_async_messages"
    /\ fn_out' = Some([received |-> try_recv_all(fn_in.chan),
                       updated |-> pop_order(try_recv_all(fn_in.chan)),
                       state |-> handle_async_messages(
                                    [st |-> Fresh, vcd_progress |-> None, workers |-> {}],
                                    fn_in.chan)])
    /\ Frozen

NextFn ==
    \/ CallSelectPreferred \/ CallClock \/ CallClipTo \/ CallRoundTrip
    \/ CallDrawClockEdges \/ CallTimeString \/ CallBasicTranslate
    \/ CallFromHierarchyString \/ CallHandleAsyncMessages

SpecFn == InitFn /\ [][NextFn]_vars

-----------------------------------------------------------------------------
(* Properties of the cache of draw commands.                               *)

span(vp) == QSub(vp.curr_right, vp.curr_left)

\* C1: whenever draw_data is Some, the pass that stored it ran on the current
\* viewport and on the current list of displayed signals: every message that
\* changes the viewport or the list leaves draw_data None.
CacheFollowsViewportAndList ==
    (waves # None /\ draw_data # None) =>
        /\ last_pass # None
        /\ last_pass[1].w.viewport = waves[1].viewport
        /\ displayed_signals(last_pass[1].w.displayed_items)
              = displayed_signals(waves[1].displayed_items)

\* a cache that was regenerated after the viewport was moved and signals were added
CacheAfterViewportAndListChange ==
    /\ waves # None
    /\ draw_data # None
    /\ waves[1].viewport # Viewport(QInt(0), QInt(waves[1].num_timestamps))
    /\ Len(displayed_signals(waves[1].displayed_items)) = 2
    /\ waves[1].displayed_items[1].signal_ref # waves[1].displayed_items[2].signal_ref

\* C2: whenever draw_data is Some, the cached commands of each displayed signal
\* were produced by the translator that signal_translator resolves now for the
\* root field of the signal.
CacheFollowsTranslators ==
    (waves # None /\ draw_data # None /\ last_pass # None) =>
        \A i \in 1..Len(waves[1].displayed_items) :
            LET root == FieldRef(waves[1].displayed_items[i].signal_ref, <<>>)
            IN  (/\ waves[1].displayed_items[i].kind = "Signal"
                 /\ root \in DOMAIN draw_data[1].draw_commands)
                => signal_translator(last_pass[1].w, root, last_pass[1].list)
                     = signal_translator(waves[1], root, translators)

\* What the pass that stored the cache did (its queries, failures, ...)
ThePass == last_pass[1].pass

Drawn == waves # None /\ draw_data # None /\ last_pass # None

Without(w, sig) ==
    [w EXCEPT !.displayed_items =
        SelectSeq(@, LAMBDA it : ~(it.kind = "Signal" /\ it.signal_ref = sig))]

CommandsOf(draw_commands, sig) ==
    Restrict(draw_commands, {f \in DOMAIN draw_commands : f.root = sig})

Others(w, sig) ==
    {w.displayed_items[i].signal_ref : i \in 1..Len(w.displayed_items)} \ {sig, ""}

\* C3: when a displayed signal S fails its meta lookup or its translation, the
\* commands the same pass stores for every other displayed signal T are those
\* of the pass over the list without S.
FailureIsPerSignal ==
    Drawn =>
        \A pass \in {ThePass} : \A S \in pass.failed \cup pass.meta_failed :
            \A T \in Others(last_pass[1].w, S) :
                CommandsOf(draw_data[1].draw_commands, T)
                  = CommandsOf(generate_draw_commands(Without(last_pass[1].w, S),
                                   last_pass[1].list, last_pass[1].width).draw_commands, T)

\* a pass in which one signal failed its translation beside another signal
\* that has commands
TranslationFailedBesideDrawn ==
    /\ Drawn
    /\ \E pass \in {ThePass} : \E S \in pass.failed :
          \E T \in Others(last_pass[1].w, S) :
              CommandsOf(draw_data[1].draw_commands, T) # <<>>

\* C4: left to itself the frame loop settles: from some point on draw_data is
\* Some and no ResetSignalFormat is pending.
FrameLoopSettles == <>[](draw_data # None /\ msgs = <<>>)

\* The sample set of the pass that stored the cache
TheSamples == timestamps(last_pass[1].w, last_pass[1].width)

FieldPaths(info) == {<<>>} \cup {<<info.sub[i][1]>> : i \in 1..Len(info.sub)}

InfoOf(p, sig) ==
    signal_info(signal_translator(p.w, FieldRef(sig, <<>>), p.list),
                signal_meta(p.w.inner, sig).meta).info

Entries(draw_commands, f) ==
    IF f \in DOMAIN draw_commands THEN draw_commands[f].values ELSE <<>>

ChangesInWindow(ts, inner, sig) ==
    LET changes == Trace(inner).vars[sig].changes
    IN  Cardinality({i \in 1..Len(changes) :
            ts[1][2] < changes[i][1] /\ changes[i][1] <= ts[Len(ts)][2]})

RootEntries(sig) == Entries(draw_data[1].draw_commands, FieldRef(sig, <<>>))

\* the signals the pass sampled: their meta lookup and translations succeeded
Sampled(pass, ts) == IF ts = <<>> THEN {} ELSE DOMAIN pass.translated

\* C6, as stated: at most k + 2 entries in the root field of a signal with k
\* value changes inside the sampled window, and exactly two entries, at the
\* first drawn pixel and at the last sample pixel, when k is 0.
SparseExactlyTwo ==
    Drawn =>
        \A pass \in {ThePass}, ts \in {TheSamples} :
            \A sig \in Sampled(pass, ts) :
                \A k \in {ChangesInWindow(ts, last_pass[1].w.inner, sig)} :
                    /\ Len(RootEntries(sig)) <= k + 2
                    /\ k = 0 => Len(RootEntries(sig)) = 2

\* C6, amended: at most k + 2 entries; when k is 0, at most two, and exactly
\* two (at the first drawn pixel and at the last sample pixel) when the
\* sample set holds at least three samples and the signal has a value at the
\* time of the first drawn pixel.
SparseAtMostTwo ==
    Drawn =>
        \A pass \in {ThePass}, ts \in {TheSamples} :
            \A sig \in Sampled(pass, ts) :
                \A k \in {ChangesInWindow(ts, last_pass[1].w.inner, sig)},
                   e \in {RootEntries(sig)} :
                    /\ Len(e) <= k + 2
                    /\ k = 0 =>
                          /\ Len(e) <= 2
                          /\ (/\ Len(ts) >= 3
                              /\ query_signal(last_pass[1].w.inner, sig, ts[2][2]).val # None)
                             => /\ Len(e) = 2
                                /\ e[1][1] = ts[2][1]
                                /\ e[2][1] = ts[Len(ts)][1]

\* more sample pixels than entries: a signal that does not change inside a
\* window of more than four samples, drawn as two entries
UnchangedSignalDrawnOnce ==
    /\ Drawn
    /\ \E pass \in {ThePass}, ts \in {TheSamples} :
          \E sig \in Sampled(pass, ts) :
              /\ Len(ts) > 4
              /\ ChangesInWindow(ts, last_pass[1].w.inner, sig) = 0
              /\ Len(RootEntries(sig)) = 2

\* C7: every time the pass hands to query_signal lies in 0 .. num_timestamps.
QueriesInRange ==
    last_pass # None =>
        \A queries \in {ThePass.queries} :
            \A i \in 1..Len(queries) :
                0 <= queries[i] /\ queries[i] <= last_pass[1].w.num_timestamps

\* a pass that makes queries on a viewport that starts below 0 and whose
\* sampled pixels reach beyond the last timestamp
QueriedOnOverhangingViewport ==
    /\ last_pass # None
    /\ ThePass.queries # <<>>
    /\ QLt(last_pass[1].w.viewport.curr_left, QInt(0))
    /\ QLt(QInt(last_pass[1].w.num_timestamps),
           pixel_time(last_pass[1].w, last_pass[1].width,
                      last_pass[1].width + max_transition_width - 1))

FirstPrefer(tl) == {i \in 1..Len(tl) : tl[i][2] = "Prefer" /\ \A j \in 1..(i - 1) : tl[j][2] # "Prefer"}

\* C8: select_preferred_translator returns the name of the first translator in
\* registration order that reports Prefer, never one that reports Yes, No or
\* an error, and the global default when none reports Prefer.
SelectsFirstPrefer ==
    (fn_out # None /\ fn_in.fn = "select_preferred_translator") =>
        /\ \A i \in FirstPrefer(fn_in.tl) : fn_out[1] = fn_in.tl[i][1]
        /\ FirstPrefer(fn_in.tl) = {} => fn_out[1] = fn_in.default

\* a call where a translator that reports Yes or an error is registered before
\* two that report Prefer
SelectedAmongSeveralPrefer ==
    /\ fn_out # None
    /\ fn_in.fn = "select_preferred_translator"
    /\ Len(fn_in.tl) = 3
    /\ fn_in.tl[1][2] \in {"Yes", "Err"}
    /\ fn_in.tl[2][2] = "Prefer"
    /\ fn_in.tl[3][2] = "Prefer"

\* C9: ClockTranslator::translate is an error for every variable that is not
\* exactly one bit wide, whatever the value, and the result of the Bit
\* translator for a one-bit variable; translates reports Yes for one bit and
\* No otherwise; signal_info reports Clock.
ClockIsOneBitOnly ==
    (fn_out # None /\ fn_in.fn = "ClockTranslator") =>
        /\ fn_in.meta.bits # 1 => ~fn_out[1].translate.ok
        /\ fn_in.meta.bits = 1 =>
              fn_out[1].translate = translate("Bit", fn_in.meta, fn_in.value)
        /\ fn_out[1].translates = IF fn_in.meta.bits = 1 THEN "Yes" ELSE "No"
        /\ fn_out[1].signal_info = [ok |-> TRUE, info |-> Info("Clock", <<>>)]

\* the Clock translator called on a two-bit variable with a one-bit value
ClockRejectedWideVariable ==
    /\ fn_out # None
    /\ fn_in.fn = "ClockTranslator"
    /\ fn_in.meta.bits = 2
    /\ fn_in.value = <<"1">>
    /\ ~fn_out[1].translate.ok

\* C10: the span curr_right - curr_left of the viewport of a loaded trace is
\* never 0.
ViewportSpanNeverZero ==
    waves # None => ~QIsZero(span(waves[1].viewport))

-----------------------------------------------------------------------------
(* Properties of Viewport::clip_to.                                        *)

ClipCalled == fn_out # None /\ fn_in.fn = "clip_to"

PositiveSpans(v, r) == QLt(QInt(0), span(v)) /\ QLt(QInt(0), span(r))

\* the fill and overlap constraints of clip_to, with m = 0.1 * min of the spans
Satisfies(v, r) ==
    LET m == QMul(Tenth, QMin(span(v), span(r)))
    IN  /\ QLe(QMul(Tenth, span(v)), span(r))
        /\ QLe(QAdd(r.curr_left, m), v.curr_right)
        /\ QLe(v.curr_left, QSub(r.curr_right, m))

\* C11: clip_to leaves a viewport that satisfies the fill and the overlap
\* constraints as it is, and for positive spans clip_to applied to its own
\* result returns that result.
ClipIsIdempotent ==
    (ClipCalled /\ PositiveSpans(fn_in.self, fn_in.valid)) =>
        /\ Satisfies(fn_in.self, fn_in.valid) => fn_out[1].once = fn_in.self
        /\ fn_out[1].twice = fn_out[1].once

\* the first clip_to moved the viewport to one that satisfies both
\* constraints, and the second left that one alone
ClippedThenKept ==
    /\ ClipCalled
    /\ PositiveSpans(fn_in.self, fn_in.valid)
    /\ fn_out[1].once # fn_in.self
    /\ span(fn_out[1].once) # span(fn_in.self)
    /\ Satisfies(fn_out[1].once, fn_in.valid)
    /\ fn_out[1].twice = fn_out[1].once

\* C12: clip_to with a valid range of width zero returns a viewport of
\* non-zero width when the viewport it is given has non-zero width.
ClipZeroValidKeepsWidth ==
    (/\ ClipCalled
     /\ QIsZero(span(fn_in.valid))
     /\ ~QIsZero(span(fn_in.self)))
    => ~QIsZero(span(fn_out[1].once))

\* C30: for a valid range of non-negative span, when that span is less than
\* 10% of the span of the viewport the zoom step divides both bounds by
\* c = 0.1 * span(viewport) / span(valid), so that the valid span is 10% of
\* the span of the result; otherwise the zoom step returns the viewport.
ZoomCorrectsToTenth ==
    (ClipCalled /\ QLe(QInt(0), span(fn_in.valid))) =>
        \A zf \in {fn_out[1].zoomed}, cv \in {QMul(Tenth, span(fn_in.self))} :
            IF QLt(span(fn_in.valid), cv)
            THEN /\ QMul(zf.curr_left, cv) = QMul(fn_in.self.curr_left, span(fn_in.valid))
                 /\ QMul(zf.curr_right, cv) = QMul(fn_in.self.curr_right, span(fn_in.valid))
                 /\ span(fn_in.valid) = QMul(Tenth, span(zf))
            ELSE zf = fn_in.self

\* a viewport off time 0 and more than ten times as wide as the valid range
\* was narrowed on both sides
ZoomedOnBothSides ==
    /\ ClipCalled
    /\ QLt(QInt(0), span(fn_in.valid))
    /\ QLt(span(fn_in.valid), QMul(Tenth, span(fn_in.self)))
    /\ fn_out[1].zoomed.curr_left # fn_in.self.curr_left
    /\ fn_out[1].zoomed.curr_right # fn_in.self.curr_right
    /\ span(fn_in.valid) = QMul(Tenth, span(fn_out[1].zoomed))

\* C31: the scroll step of clip_to keeps the width of the viewport the zoom
\* step returned, and for positive spans the result reaches at least
\* m = 0.1 * min(span(viewport), span(valid)) into the valid range from both
\* sides.
ScrollRestoresOverlap ==
    ClipCalled =>
        \A v \in {fn_out[1].once},
           m \in {QMul(Tenth, QMin(span(fn_in.self), span(fn_in.valid)))} :
            /\ span(v) = span(fn_out[1].zoomed)
            /\ PositiveSpans(fn_in.self, fn_in.valid) =>
                  /\ QLe(QAdd(fn_in.valid.curr_left, m), v.curr_right)
                  /\ QLe(v.curr_left, QSub(fn_in.valid.curr_right, m))

\* a viewport that lay beside the valid range was shifted onto its margin
ShiftedOntoMargin ==
    /\ ClipCalled
    /\ PositiveSpans(fn_in.self, fn_in.valid)
    /\ fn_out[1].once # fn_out[1].zoomed
    /\ span(fn_out[1].once) = span(fn_out[1].zoomed)
    /\ \/ fn_out[1].once.curr_right =
             QAdd(fn_in.valid.curr_left,
                  QMul(Tenth, QMin(span(fn_in.self), span(fn_in.valid))))
       \/ fn_out[1].once.curr_left =
             QSub(fn_in.valid.curr_right,
                  QMul(Tenth, QMin(span(fn_in.self), span(fn_in.valid))))

\* the scroll step with its two checks in the other order
LeftCheckFirst(zf, corr_right, corr_left) ==
    IF QLt(corr_left, QInt(0))
    THEN Viewport(QAdd(zf.curr_left, corr_left), QAdd(zf.curr_right, corr_left))
    ELSE IF QLt(QInt(0), corr_right)
    THEN Viewport(QAdd(zf.curr_left, corr_right), QAdd(zf.curr_right, corr_right))
    ELSE zf

\* C40: for a viewport and a valid range of positive span the two
\* conditions of the scroll step, corr_right > 0 and corr_left < 0, never
\* hold together, and the checks made in the other order give the same
\* viewport.
ShiftConditionsExclusive ==
    (ClipCalled /\ PositiveSpans(fn_in.self, fn_in.valid)) =>
        \A zf \in {fn_out[1].zoomed},
           m \in {QMul(Tenth, QMin(span(fn_in.self), span(fn_in.valid)))} :
            \A corr_right \in {QSub(QAdd(fn_in.valid.curr_left, m), zf.curr_right)},
               corr_left \in {QSub(QSub(fn_in.valid.curr_right, m), zf.curr_left)} :
                /\ ~(QLt(QInt(0), corr_right) /\ QLt(corr_left, QInt(0)))
                /\ fn_out[1].once = LeftCheckFirst(zf, corr_right, corr_left)

\* the left-shift condition held alone, and the viewport was moved left
LeftShiftAlone ==
    /\ ClipCalled
    /\ PositiveSpans(fn_in.self, fn_in.valid)
    /\ QLt(QSub(QSub(fn_in.valid.curr_right,
                      QMul(Tenth, QMin(span(fn_in.self), span(fn_in.valid)))),
                 fn_out[1].zoomed.curr_left), QInt(0))
    /\ QLt(fn_out[1].once.curr_left, fn_out[1].zoomed.curr_left)

QAbs(a) == <<Abs(a[1]), a[2]>>

RoundTripCalled == fn_out # None /\ fn_in.fn = "round_trip"

\* C13: on a viewport with a span and a canvas of width w > 0, to_time(x, w)
\* is left + (right - left) / w * x, pixel 0 maps to left and pixel w to
\* right, and from_time of that time rounded to an integer timestamp is x
\* when the time is an integer, and otherwise at most the pixels of half a
\* time unit (w / (2 |right - left|)) away from x.
ViewportRoundTrip ==
    RoundTripCalled =>
        LET vp == fn_in.vp
            x == fn_in.x
            w == QInt(fn_in.w)
            time == fn_out[1].time
        IN  /\ time = QAdd(vp.curr_left, QMul(QDiv(span(vp), w), x))
            /\ QIsZero(x) => time = vp.curr_left
            /\ x = w => time = vp.curr_right
            /\ time[2] = 1 => fn_out[1].back = x
            /\ QLe(QMul(QInt(2), QMul(QAbs(QSub(fn_out[1].back, x)), QAbs(span(vp)))), w)

\* a pixel inside the canvas whose time is not an integer, on a viewport that
\* does not start at 0
RoundTripOfFractionalTime ==
    /\ RoundTripCalled
    /\ fn_out[1].time[2] # 1
    /\ ~QIsZero(fn_in.vp.curr_left)
    /\ fn_out[1].back # fn_in.x

-----------------------------------------------------------------------------
(* Properties of the pass against failing collaborators.                    *)

\* C14: a pass of generate_draw_commands changes nothing of the session but
\* the cache and the outgoing messages: the trace, the viewport, the
\* displayed items, signal_format, the cursors, the focus, the scroll and
\* the translators are after the pass what they were before it, whatever
\* signal_meta, query_signal and translate answered.
PassChangesOnlyCacheAndMessages ==
    [][DrawSignals =>
        /\ translators' = translators
        /\ (waves = None) = (waves' = None)
        /\ waves # None =>
              /\ waves'[1].inner = waves[1].inner
              /\ waves'[1].viewport = waves[1].viewport
              /\ waves'[1].displayed_items = waves[1].displayed_items
              /\ waves'[1].signal_format = waves[1].signal_format
              /\ waves'[1].cursor = waves[1].cursor
              /\ waves'[1].cursors = waves[1].cursors
              /\ waves'[1].focused_item = waves[1].focused_item
              /\ waves'[1].scroll = waves[1].scroll
              /\ waves'[1].num_timestamps = waves[1].num_timestamps]_vars

\* a pass over a clock whose queries failed and a bus whose translation
\* failed has stored its cache, the reset of the bus waits among the
\* messages, and the session with its override is the one the pass was given
PassWithFailuresLeftSession ==
    /\ last_pass # None
    /\ draw_data # None
    /\ waves # None
    /\ last_pass[1].w = waves[1]
    /\ waves[1].inner = "Q"
    /\ waves[1].signal_format # <<>>
    /\ \E k \in 1..Len(waves[1].displayed_items) :
          waves[1].displayed_items[k].signal_ref = "clk"
    /\ last_pass[1].pass.queries # <<>>
    /\ \E sig \in last_pass[1].pass.failed :
          \E k \in 1..Len(msgs) : msgs[k].field = FieldRef(sig, <<>>)

\* C15: generate_draw_commands completes for every outcome of its
\* collaborators (signal_meta, signal_info, query_signal, translate): no
\* pass aborts.
PassNeverAborts == ~panicked

-----------------------------------------------------------------------------
(* Properties of the cached commands.                                       *)

\* the pixels of one cached DrawingCommands, in the order of its entries
Pixels(commands) == [k \in 1..Len(commands.values) |-> commands.values[k][1]]

\* C16: in every cached DrawingCommands the pixels are strictly increasing
\* and lie in [-max_transition_width, width + max_transition_width), width
\* being the canvas width of the pass that stored the cache.
CachedPixelsOrderedInOverscan ==
    (draw_data # None /\ last_pass # None) =>
        \A f \in DOMAIN draw_data[1].draw_commands :
            \A px \in {Pixels(draw_data[1].draw_commands[f])} :
                /\ \A k \in 1..(Len(px) - 1) : px[k] < px[k + 1]
                /\ \A k \in 1..Len(px) :
                      /\ -max_transition_width <= px[k]
                      /\ px[k] < last_pass[1].width + max_transition_width

\* a cached sequence of at least three entries that starts left of the canvas
\* and ends right of it
CachedAcrossBothOverscans ==
    /\ draw_data # None
    /\ last_pass # None
    /\ \E f \in DOMAIN draw_data[1].draw_commands :
          \E px \in {Pixels(draw_data[1].draw_commands[f])} :
              /\ Len(px) >= 3
              /\ px[1] < 0
              /\ px[Len(px)] >= last_pass[1].width

-----------------------------------------------------------------------------
(* Properties of the shading decision.                                      *)

ShadeCalled == fn_out # None /\ fn_in.fn = "draw_clock_edges"

\* C17: the clock cycles are not shaded for an empty edge list, shaded for a
\* list of one edge, and for two or more edges shaded exactly when the second
\* edge is more than 15 pixels right of the first: edges at 10 and 20 are
\* not shaded, edges at 10 and 30 are.
ShadingDecision ==
    ShadeCalled =>
        LET e == fn_in.clock_edges
            on == fn_out[1].shade
        IN  /\ Len(e) = 0 => ~on
            /\ Len(e) = 1 => on
            /\ Len(e) >= 2 => (on <=> e[2] - e[1] >= 16)
            /\ e = <<10, 20>> => ~on
            /\ e = <<10, 30>> => on

\* three edges, the first two 16 pixels apart and the third closer: shaded
ShadedBySixteenPixels ==
    /\ ShadeCalled
    /\ Len(fn_in.clock_edges) = 3
    /\ fn_in.clock_edges[2] - fn_in.clock_edges[1] = 16
    /\ fn_in.clock_edges[3] - fn_in.clock_edges[2] < 15
    /\ fn_out[1].shade

-----------------------------------------------------------------------------
(* Properties of a reload that keeps the signals.                           *)

\* the items of a list that a reload into the trace carries over, by the
\* variables the trace has
RECURSIVE Carried(_, _)
Carried(items, trace) ==
    IF items = <<>> THEN <<>>
    ELSE (IF items[1].kind = "Signal" /\ items[1].signal_ref \notin DOMAIN Trace(trace).vars
          THEN <<>> ELSE <<items[1]>>) \o Carried(Tail(items), trace)

OfKind(items, kind) == SelectSeq(items, LAMBDA i : i.kind = kind)

\* C18: WavesLoaded with keep_signals on a session with a trace leaves as
\* displayed items the old list without the Signal items whose variable the
\* new trace lacks, in the old order; every Divider and every Cursor stays.
ReloadCarriesItems ==
    [][\A new_waves \in TraceIds :
          (/\ waves # None
           /\ Do(on_WavesLoaded(St, new_waves, TRUE))
           /\ ~panicked') =>
              /\ waves' # None
              /\ waves'[1].inner = new_waves
              /\ waves'[1].displayed_items = Carried(waves[1].displayed_items, new_waves)
              /\ OfKind(waves'[1].displayed_items, "Divider")
                    = OfKind(waves[1].displayed_items, "Divider")
              /\ OfKind(waves'[1].displayed_items, "Cursor")
                    = OfKind(waves[1].displayed_items, "Cursor")]_vars

\* the bus cannot be added on trace B, whose metadata of the bus fails: a
\* session on B that shows the bus below a divider was reloaded from trace A
\* with its signals, and both items came along in their order
ReloadedWithDividerAndSignal ==
    /\ waves # None
    /\ waves[1].inner = "B"
    /\ Len(waves[1].displayed_items) = 2
    /\ waves[1].displayed_items[1].kind = "Divider"
    /\ waves[1].displayed_items[2].kind = "Signal"
    /\ waves[1].displayed_items[2].signal_ref = "bus"

-----------------------------------------------------------------------------
(* Properties of time_string.                                               *)

TimeCalled == fn_out # None /\ fn_in.fn = "time_string"

\* the number a sequence of digits spells
RECURSIVE NatOf(_)
NatOf(str) ==
    IF str = <<>> THEN 0
    ELSE 10 * NatOf(SubSeq(str, 1, Len(str) - 1))
         + (CHOOSE v \in 0..9 : Digit[v + 1] = str[Len(str)])

Unsigned(str) == IF str # <<>> /\ str[1] = "-" THEN Tail(str) ELSE str

IsDigits(str) == str # <<>> /\ \A k \in 1..Len(str) : \E v \in 1..10 : Digit[v] = str[k]

\* C19: with d = exponent(display unit) - exponent(native unit) and
\* n = t * native.factor, time_string prints for d >= 0 the number n / 10^d
\* with exactly d digits after the point (no point for d = 0), and for d < 0
\* the integer n * 10^(-d) without a fraction, then the display timescale:
\* 1500 ns in us is 1.500, 2 ns in ps is 2000.
TimeStringScales ==
    TimeCalled =>
        LET d == to_exponent(fn_in.wanted.unit) - to_exponent(fn_in.data.unit)
            n == fn_in.time * fn_in.data.factor
            str == fn_out[1].scaledtime
            body == Unsigned(str)
            whole == SubSeq(body, 1, Len(body) - d - 1)
            frac == SubSeq(body, Len(body) - d + 1, Len(body))
        IN  /\ fn_out[1].wanted_timescale = fn_in.wanted
            /\ (str[1] = "-") = (n < 0)
            /\ d > 0 =>
                  /\ Len(body) >= d + 2
                  /\ body[Len(body) - d] = "."
                  /\ IsDigits(whole) /\ IsDigits(frac)
                  /\ Len(frac) = d
                  /\ NatOf(whole) * Pow10(d) + NatOf(frac) = Abs(n)
            /\ d = 0 => IsDigits(body) /\ NatOf(body) = Abs(n)
            /\ d < 0 => IsDigits(body) /\ NatOf(body) = Abs(n) * Pow10(-d)
            /\ (fn_in.time = 1500 /\ fn_in.data = Timescale(1, "ns") /\ fn_in.wanted.unit = "us")
                  => str = <<"1", ".", "5", "0", "0">>
            /\ (fn_in.time = 2 /\ fn_in.data = Timescale(1, "ns") /\ fn_in.wanted.unit = "ps")
                  => str = <<"2", "0", "0", "0">>

\* a time below one display unit with a factor of 10: the fraction keeps its
\* leading zeros
TimeBelowOneDisplayUnit ==
    /\ TimeCalled
    /\ fn_in.time = 2
    /\ fn_in.data = Timescale(10, "ns")
    /\ fn_in.wanted.unit = "us"
    /\ fn_out[1].scaledtime = <<"0", ".", "0", "2", "0">>

-----------------------------------------------------------------------------
(* Properties of the numeric translators.                                   *)

NumericCalled == fn_out # None /\ fn_in.fn = "basic_translate"

HasMarker(s) == \E k \in 1..Len(s) : s[k] \notin {"0", "1"}

\* C20: basic_translate of a numeric translator returns a string value that
\* map_vector_signal classifies as Unparsable(s, kind) as (s, kind), without
\* a call of translate_biguint; for a binary value and for a string
\* classified as Numerical(v) it returns translate_biguint(num_bits, v) with
\* ValueKind::Normal, after exactly that call.
NumericSkipsFourValued ==
    NumericCalled =>
        LET value == fn_in.value
            r == map_vector_signal(value.s)
            out == fn_out[1].out
            calls == fn_out[1].biguint_calls
        IN  /\ (value.variant = "String" /\ ~r.numerical) =>
                  /\ HasMarker(value.s)
                  /\ out = <<Join(value.s), r.kind>>
                  /\ out[2] \in {"Undef", "HighImp", "DontCare"}
                  /\ calls = <<>>
            /\ (value.variant = "String" /\ r.numerical) =>
                  /\ ~HasMarker(value.s)
                  /\ calls = << <<fn_in.num_bits, r.v>> >>
                  /\ out = <<translate_biguint(fn_in.num_bits, r.v), "Normal">>
            /\ value.variant = "Binary" =>
                  /\ calls = << <<fn_in.num_bits, from_bytes_be(value.bytes)>> >>
                  /\ out = <<translate_biguint(fn_in.num_bits, from_bytes_be(value.bytes)),
                             "Normal">>
            /\ value = String(<<"1", "0", "1", "0">>) => out = <<"a", "Normal">>
            /\ value = Binary(<<1, 10>>) => out = <<"10a", "Normal">>

\* a string with binary digits around one undefined bit came back as it was,
\* and nothing was parsed
UndefinedBitShortCircuited ==
    /\ NumericCalled
    /\ fn_in.value = String(<<"1", "x", "0">>)
    /\ fn_out[1].out = <<"1x0", "Undef">>
    /\ fn_out[1].biguint_calls = <<>>

-----------------------------------------------------------------------------
(* Properties of VarName.                                                   *)

NameCalled == fn_out # None /\ fn_in.fn = "from_hierarchy_string"

Dots(str) == {k \in 1..Len(str) : str[k] = "."}

\* C21: full_path_string gives back the string from_hierarchy_string parsed;
\* the name is what follows the last dot, the path holds one segment for
\* each dot, the segments before it in their order, and the empty string
\* parses into an empty path and an empty name.
VarNameRoundTrip ==
    NameCalled =>
        LET str == fn_in.s
            var == fn_out[1].var
            last == IF Dots(str) = {} THEN 0
                    ELSE CHOOSE k \in Dots(str) : \A j \in Dots(str) : j <= k
        IN  /\ fn_out[1].string = str
            /\ var.name = SubSeq(str, last + 1, Len(str))
            /\ Len(var.path) = Cardinality(Dots(str))
            /\ \A k \in 1..Len(var.path) : Dots(var.path[k]) = {}
            /\ last > 0 => join(var.path) = SubSeq(str, 1, last - 1)
            /\ fn_out[1].full = var.path \o <<var.name>>
            /\ str = <<>> => (var.path = <<>> /\ var.name = <<>>)

\* a string with an empty segment between two dots
ParsedEmptySegments ==
    /\ NameCalled
    /\ fn_in.s = <<"a", ".", ".", "b">>
    /\ fn_out[1].var.path = << <<"a">>, <<>> >>
    /\ fn_out[1].var.name = <<"b">>
    /\ fn_out[1].string = fn_in.s

-----------------------------------------------------------------------------
(* Properties of the sample loop.                                           *)

\* the pixels of the entries the cache holds for the fields of a signal
EntryPixels(sig) ==
    UNION {{draw_data[1].draw_commands[f].values[k][1] :
                k \in 1..Len(draw_data[1].draw_commands[f].values)} :
           f \in {g \in DOMAIN draw_data[1].draw_commands : g.root = sig}}

\* the samples between the first drawn pixel and the last sample pixel
Inner(ts) == 3..(Len(ts) - 1)

\* C22: at a sample pixel that is neither the first drawn pixel nor the last
\* sample pixel, when the change that query_signal returns is not newer than
\* the previous sample time, the cache holds no entry at that pixel for any
\* field of the signal.
UnchangedPixelHasNoEntry ==
    Drawn =>
        \A ts \in {TheSamples}, w \in {last_pass[1].w} :
            \A sig \in {w.displayed_items[k].signal_ref : k \in 1..Len(w.displayed_items)} :
                \A i \in Inner(ts) :
                    \A q \in {query_signal(w.inner, sig, ts[i][2])} :
                        (q.ok /\ q.val # None /\ q.val[1][1] <= ts[i - 1][2])
                            => ts[i][1] \notin EntryPixels(sig)

\* a pixel between the first drawn and the last whose change is exactly as
\* old as the previous sample: it was translated, and nothing was emitted
TranslatedUnchangedPixel ==
    /\ Drawn
    /\ \E pass \in {ThePass}, ts \in {TheSamples} :
          \E sig \in DOMAIN pass.translated : \E i \in Inner(ts) :
              /\ query_signal(last_pass[1].w.inner, sig, ts[i][2]).val # None
              /\ query_signal(last_pass[1].w.inner, sig, ts[i][2]).val[1][1] = ts[i - 1][2]
              /\ \E k \in 1..Len(pass.translated[sig]) : pass.translated[sig][k] = ts[i][1]
              /\ ts[i][1] \notin EntryPixels(sig)
              /\ EntryPixels(sig) # {}

\* the fields translate and flatten give for a signal at sample i of ts
FieldsAt(p, sig, ts, i) ==
    flatten(translate(signal_translator(p.w, FieldRef(sig, <<>>), p.list),
                      signal_meta(p.w.inner, sig).meta,
                      query_signal(p.w.inner, sig, ts[i][2]).val[1][2]),
            sig, p.w.signal_format, p.list)

\* the indices in ts of the pixels at which the pass translated the signal
TranslatedAt(pass, sig, ts) ==
    {i \in 2..Len(ts) :
        \E k \in 1..Len(pass.translated[sig]) : pass.translated[sig][k] = ts[i][1]}

Before(e, pixel) == SelectSeq(e, LAMBDA x : x[1] < pixel)

At(e, pixel) == SelectSeq(e, LAMBDA x : x[1] = pixel)

\* C23: at every translated sample pixel, a flattened field has an entry
\* exactly when its value differs from the value of its latest earlier entry
\* (or it has none), or the pixel is the last sample pixel, or the field is
\* the root and the change is newer than the previous sample time; the entry
\* holds the value, so the value an entry is compared with is that of the
\* latest entry.
EmissionRule ==
    Drawn =>
        \A pass \in {ThePass}, ts \in {TheSamples} :
            \A sig \in DOMAIN pass.translated : \A i \in TranslatedAt(pass, sig, ts) :
                \A fields \in {FieldsAt(last_pass[1], sig, ts, i)} :
                    \A n \in 1..Len(fields) :
                        \A e \in {Entries(draw_data[1].draw_commands,
                                           FieldRef(sig, fields[n][1]))} :
                            LET before == Before(e, ts[i][1])
                                at == At(e, ts[i][1])
                                change_time ==
                                    query_signal(last_pass[1].w.inner, sig, ts[i][2]).val[1][1]
                            IN  /\ Len(at) <= 1
                                /\ at # <<>> <=>
                                      \/ before = <<>>
                                      \/ before[Len(before)][2].inner # fields[n][2]
                                      \/ i = Len(ts)
                                      \/ fields[n][1] = <<>> /\ change_time > ts[i - 1][2]
                                /\ at # <<>> => at[1][2].inner = fields[n][2]

\* at one translated pixel the root got an entry for a newer change that
\* decodes to the value of its latest entry, and a sub-field got none
RootEmittedSubFieldNot ==
    /\ Drawn
    /\ \E pass \in {ThePass}, ts \in {TheSamples} :
          \E sig \in DOMAIN pass.translated : \E i \in TranslatedAt(pass, sig, ts) :
              \E f \in DOMAIN draw_data[1].draw_commands :
                  /\ f.root = sig
                  /\ f.field # <<>>
                  /\ i < Len(ts)
                  /\ At(draw_data[1].draw_commands[f].values, ts[i][1]) = <<>>
                  /\ \E x \in {At(RootEntries(sig), ts[i][1])} :
                        x # <<>> /\ x[1][2].force_anti_alias

\* the index in ts of the sample at a pixel
IndexOf(ts, pixel) == CHOOSE i \in 1..Len(ts) : ts[i][1] = pixel

\* C24: an entry has force_anti_alias exactly when its field is the root, the
\* change that query_signal returned is newer than the previous sample time
\* and the decoded value is that of the latest earlier entry of the field;
\* it is not set on a sub-field entry nor on the first entry of a field.
ForceAntiAliasRule ==
    Drawn =>
        \A ts \in {TheSamples} : \A f \in DOMAIN draw_data[1].draw_commands :
            \A e \in {draw_data[1].draw_commands[f].values} : \A k \in 1..Len(e) :
                \A i \in {IndexOf(ts, e[k][1])} :
                    LET change_time ==
                            query_signal(last_pass[1].w.inner, f.root, ts[i][2]).val[1][1]
                    IN  /\ e[k][2].force_anti_alias <=>
                              /\ f.field = <<>>
                              /\ change_time > ts[i - 1][2]
                              /\ k > 1
                              /\ e[k - 1][2].inner = e[k][2].inner
                        /\ f.field # <<>> => ~e[k][2].force_anti_alias
                        /\ k = 1 => ~e[k][2].force_anti_alias

\* a root field with an entry forced for a rewrite of the same value and a
\* later entry for a newer change to another value, which is not forced
ForcedAndUnforcedChange ==
    /\ Drawn
    /\ \E ts \in {TheSamples} : \E f \in DOMAIN draw_data[1].draw_commands :
          \E e \in {draw_data[1].draw_commands[f].values} : \E j, k \in 1..Len(e) :
              /\ f.field = <<>>
              /\ e[j][2].force_anti_alias
              /\ k > j
              /\ ~e[k][2].force_anti_alias
              /\ e[k][2].inner # e[k - 1][2].inner
              /\ \E i \in {IndexOf(ts, e[k][1])} :
                    query_signal(last_pass[1].w.inner, f.root, ts[i][2]).val[1][1]
                        > ts[i - 1][2]

-----------------------------------------------------------------------------
(* Properties of the clock edges.                                           *)

\* the pixels the cache lists as clock edges
EdgePixels == {draw_data[1].clock_edges[k] : k \in 1..Len(draw_data[1].clock_edges)}

\* the entries of the cache with the decoded value "1" at a pixel that is
\* neither the first drawn nor the last sample pixel, by the shape of their
\* field: <<field, pixel>>
OnesOfShape(ts, shapes) ==
    {x \in UNION {{<<f, draw_data[1].draw_commands[f].values[k]>> :
                      k \in 1..Len(draw_data[1].draw_commands[f].values)} :
                  f \in DOMAIN draw_data[1].draw_commands} :
        /\ get_subinfo(InfoOf(last_pass[1], x[1].root), x[1].field) \in shapes
        /\ x[2][2].inner # None
        /\ x[2][2].inner[1][1] = "1"
        /\ x[2][1] # ts[2][1]
        /\ x[2][1] # ts[Len(ts)][1]}

\* C25: the pixel of every entry with decoded value "1" of a field of shape
\* Boolean or Clock, at a sample pixel that is neither the first drawn nor
\* the last, is in the clock-edge list.
BoolAndClockEdgesRecorded ==
    Drawn =>
        \A ts \in {TheSamples} :
            \A x \in OnesOfShape(ts, {"Bool", "Clock"}) : x[2][1] \in EdgePixels

\* C26: the clock-edge list of the cache is ordered by pixel after every
\* pass: no edge is left of the edge before it.
ClockEdgesOrdered ==
    draw_data # None =>
        \A e \in {draw_data[1].clock_edges} :
            \A k \in 1..(Len(e) - 1) : e[k] <= e[k + 1]

\* C39: every pixel of the cached clock-edge list is the pixel of an entry
\* with value "1" that the same cache holds for a field of shape Clock; a
\* signal whose translation failed has no command and so no clock edge.
ClockEdgesHaveCommands ==
    Drawn =>
        \A ts \in {TheSamples} :
            \A pixel \in EdgePixels :
                \E x \in OnesOfShape(ts, {"Clock"}) : x[2][1] = pixel

-----------------------------------------------------------------------------
(* Properties of a failed translation.                                      *)

\* the sample is queried with a value and not skipped as unchanged
Reaches(p, sig, ts, i) ==
    \E q \in {query_signal(p.w.inner, sig, ts[i][2])} :
        /\ q.ok
        /\ q.val # None
        /\ ~(q.val[1][1] < ts[i - 1][2] /\ i # 2 /\ i # Len(ts))

\* the samples at which the translation of the signal fails
Failing(p, sig, ts) ==
    {i \in 2..Len(ts) :
        /\ Reaches(p, sig, ts, i)
        /\ ~translate(signal_translator(p.w, FieldRef(sig, <<>>), p.list),
                      signal_meta(p.w.inner, sig).meta,
                      query_signal(p.w.inner, sig, ts[i][2]).val[1][2]).ok}

\* the number of samples queried for one displayed item: none after a failed
\* metadata lookup, up to the first failing sample, or all
Queried(p, sig, ts) ==
    IF ~signal_meta(p.w.inner, sig).ok THEN 0
    ELSE IF Failing(p, sig, ts) = {}
    THEN (IF Len(ts) < 2 THEN 0 ELSE Len(ts) - 1)
    ELSE (CHOOSE i \in Failing(p, sig, ts) : \A j \in Failing(p, sig, ts) : i <= j) - 1

\* the times queried for the displayed items in their order
RECURSIVE QueryTimes(_, _, _)
QueryTimes(p, sigs, ts) ==
    IF sigs = <<>> THEN <<>>
    ELSE [k \in 1..Queried(p, sigs[1], ts) |-> ts[k + 1][2]]
         \o QueryTimes(p, Tail(sigs), ts)

Resets(messages, sig) ==
    Cardinality({k \in 1..Len(messages) :
        messages[k] = [type |-> "ResetSignalFormat", field |-> FieldRef(sig, <<>>)]})

ItemsOf(w, sig) ==
    Cardinality({k \in 1..Len(w.displayed_items) :
        w.displayed_items[k].kind = "Signal" /\ w.displayed_items[k].signal_ref = sig})

\* C27, as stated: a signal whose translation failed has exactly one
\* ResetSignalFormat for its root among the messages of the pass.
FailureResetsOnce ==
    Drawn => \A pass \in {ThePass} : \A S \in pass.failed : Resets(pass.msgs, S) = 1

\* C27, amended: a signal whose translation failed has one ResetSignalFormat
\* for its root per displayed item that shows it, no sample after the
\* failing one is queried for it, and the cache holds no commands for any
\* field rooted at it.
FailureResetsPerItem ==
    Drawn =>
        \A pass \in {ThePass}, ts \in {TheSamples} :
            /\ pass.queries
                  = QueryTimes(last_pass[1], displayed_signals(last_pass[1].w.displayed_items), ts)
            /\ \A S \in pass.failed :
                  /\ Failing(last_pass[1], S, ts) # {}
                  /\ Resets(pass.msgs, S) = ItemsOf(last_pass[1].w, S)
                  /\ CommandsOf(draw_data[1].draw_commands, S) = <<>>
            /\ \A k \in 1..Len(pass.msgs) : pass.msgs[k].field.root \in pass.failed

\* a signal displayed once whose translation failed after an earlier sample
\* of it had been translated: one reset, and samples left unqueried
FailedAfterTranslatedSample ==
    /\ Drawn
    /\ \E pass \in {ThePass}, ts \in {TheSamples} : \E S \in pass.failed :
          /\ ItemsOf(last_pass[1].w, S) = 1
          /\ Resets(pass.msgs, S) = 1
          /\ \E i \in Failing(last_pass[1], S, ts) :
                /\ i < Len(ts)
                /\ \E j \in 2..(i - 1) :
                      Reaches(last_pass[1], S, ts, j) /\ j \notin Failing(last_pass[1], S, ts)
          /\ Len(pass.queries) < Len(ts) - 1

-----------------------------------------------------------------------------
(* Properties of the translator resolution.                                 *)

\* C28: the translator a pass resolves for the root field of a signal is the
\* override in signal_format when there is one and it is valid for the shape
\* of the signal, and the Prefer/default selection otherwise.
OverrideUsedOnlyIfValid ==
    Drawn =>
        \A pass \in {ThePass}, p \in {last_pass[1]} : \A sig \in DOMAIN pass.used :
            \A f \in {FieldRef(sig, <<>>)}, m \in {signal_meta(p.w.inner, sig).meta} :
                pass.used[sig] =
                    IF /\ f \in DOMAIN p.w.signal_format
                       /\ is_valid_translator(p.list, m, p.w.signal_format[f])
                    THEN p.w.signal_format[f]
                    ELSE select_preferred_translator(
                            Preferences(all_translators(p.list), m), DefaultTranslator)

-----------------------------------------------------------------------------
(* Properties of the overrides across a reload.                             *)

DisplayedIn(w) ==
    {w.displayed_items[k].signal_ref :
        k \in {j \in 1..Len(w.displayed_items) : w.displayed_items[j].kind = "Signal"}}

\* C29: a reload that keeps the signals completes, and leaves in
\* signal_format only entries whose root is a displayed signal of the new
\* trace: a root entry whose translator is valid for the new shape, a nested
\* entry whose path exists under the shape its root's translator reports.
ReloadReconcilesOverrides ==
    [][\A new_waves \in TraceIds :
          (waves # None /\ Do(on_WavesLoaded(St, new_waves, TRUE))) =>
              /\ ~panicked'
              /\ \A f \in DOMAIN waves'[1].signal_format :
                    /\ f.root \in DisplayedIn(waves'[1])
                    /\ signal_exists(new_waves, f.root)
                    /\ f.field = <<>> =>
                          is_valid_translator(translators,
                              signal_meta(new_waves, f.root).meta, waves'[1].signal_format[f])
                    /\ f.field # <<>> =>
                          has_subpath(
                              signal_info(signal_translator(waves'[1], FieldRef(f.root, <<>>),
                                                            translators),
                                          signal_meta(new_waves, f.root).meta).info,
                              f.field)]_vars

-----------------------------------------------------------------------------
(* Properties of the loads.                                                 *)

AsyncCalled == fn_out # None /\ fn_in.fn = "handle_async_messages"

\* C32: handle_async_messages gives the messages to update in the order in
\* which it received them from the channel.
UpdatesInReceiveOrder ==
    AsyncCalled => fn_out[1].updated = fn_out[1].received

AllReported == workers = {} /\ channel = <<>>

\* C33: when a load was requested while an earlier one had not reported, and
\* every worker has reported a trace and every message is processed, the
\* loaded trace is the one requested last.
LastRequestedLoadWins ==
    (/\ AllReported
     /\ Len(loads) >= 2
     /\ loads[Len(loads)].overlapped
     /\ \A k \in 1..Len(loads) : loads[k].result = "loaded")
    => /\ waves # None
       /\ waves[1].inner = loads[Len(loads)].source

\* C34: once the workers of the loads have reported, a trace or an error,
\* and the messages are processed, vcd_progress is None.
ProgressClearedWhenReported ==
    AllReported => vcd_progress = None

-----------------------------------------------------------------------------
(* Properties of the list of displayed items.                               *)

\* C35: focused_item is None or an index below the length of
\* displayed_items.
FocusInBounds ==
    waves # None =>
        \/ waves[1].focused_item = None
        \/ waves[1].focused_item[1] < Len(waves[1].displayed_items)

\* C36: scroll is 0 when displayed_items is empty and below its length
\* otherwise, and no handler faults.
ScrollInBounds ==
    /\ ~panicked
    /\ waves # None =>
          IF waves[1].displayed_items = <<>> THEN waves[1].scroll = 0
          ELSE waves[1].scroll < Len(waves[1].displayed_items)

CursorItems(w) ==
    {k \in 1..Len(w.displayed_items) : w.displayed_items[k].kind = "Cursor"}

\* C37: the idx values of the cursor items of displayed_items are the keys of
\* the cursors map, and no two cursor items have the same idx.
CursorsConsistent ==
    waves # None =>
        /\ {waves[1].displayed_items[k].idx : k \in CursorItems(waves[1])}
              = DOMAIN waves[1].cursors
        /\ \A j, k \in CursorItems(waves[1]) :
              waves[1].displayed_items[j].idx = waves[1].displayed_items[k].idx => j = k

\* two cursors were stored, at different times, and each is listed once
TwoCursorsListed ==
    /\ waves # None
    /\ Cardinality(CursorItems(waves[1])) = 2
    /\ DOMAIN waves[1].cursors = {1, 2}

Min(a, b) == IF a < b THEN a ELSE b

\* the items of seq without the one at index i (from 0)
Except(seq, i) == [k \in 1..(Len(seq) - 1) |-> IF k <= i THEN seq[k] ELSE seq[k + 1]]

\* C38: MoveFocusedItem on a list of n >= 1 items with the item at index i
\* focused and count >= 1 completes, moves the focused item up by
\* min(count, i) or down by min(count, n - 1 - i) places, keeps the order of
\* the other items, and leaves focused_item on the moved item.
MoveFocusedItemMoves ==
    [][\A direction \in {"Up", "Down"}, count \in 1..2 :
          (/\ waves # None
           /\ waves[1].focused_item # None
           /\ waves[1].focused_item[1] < Len(waves[1].displayed_items)
           /\ Do(on_MoveFocusedItem(St, direction, count)))
          => \E i \in {waves[1].focused_item[1]}, n \in {Len(waves[1].displayed_items)} :
               \E to \in {IF direction = "Up" THEN i - Min(count, i)
                                                ELSE i + Min(count, n - 1 - i)} :
                 /\ ~panicked'
                 /\ waves'[1].focused_item = Some(to)
                 /\ Len(waves'[1].displayed_items) = n
                 /\ waves'[1].displayed_items[to + 1] = waves[1].displayed_items[i + 1]
                 /\ Except(waves'[1].displayed_items, to) = Except(waves[1].displayed_items, i)
      ]_vars

====
